---- MODULE Spec2Model ----
(***************************************************************************)
(* Load take-down pipeline (LTD): the vertical alignment aggregator of     *)
(* LTD_summary.py (group_columns_by_alignment) and the per-floor           *)
(* tessellation driver of vornoi5.py (generate_voronoi_floor_plots).       *)
(*                                                                         *)
(* Units.  Coordinates are integers in decimetres (0.1 m), areas and       *)
(* weighted areas are integers in thousandths (vornoi5.py rounds both to   *)
(* 3 decimals), values rounded to 2 decimals are integers in hundredths.   *)
(* Floor labels are sequences of one-character strings.                    *)
(***************************************************************************)
EXTENDS Integers, Sequences, FiniteSets, TLC

\* ------------------------------------------------------------------------
\* Bounds of the model
\* ------------------------------------------------------------------------
MaxFloors == 2

MaxRecords == 3

\* ------------------------------------------------------------------------
\* Generic helpers
\* ------------------------------------------------------------------------
Min2(a, b) == IF a <= b THEN a ELSE b

RECURSIVE SumSeq(_)
SumSeq(s) == IF s = <<>> THEN 0 ELSE Head(s) + SumSeq(Tail(s))

RECURSIVE Flatten(_)
Flatten(ss) == IF ss = <<>> THEN <<>> ELSE Head(ss) \o Flatten(Tail(ss))

Reverse(s) == [i \in 1..Len(s) |-> s[Len(s) + 1 - i]]

Range(s) == {s[i] : i \in 1..Len(s)}

\* number of positions of s holding e
Count(s, e) == Cardinality({i \in 1..Len(s) : s[i] = e})

\* ------------------------------------------------------------------------
\* Floor labels and floor_sort_key
\* ------------------------------------------------------------------------
Digits == <<"0", "1", "2", "3", "4", "5", "6", "7", "8", "9">>

IsDigit(c) == \E d \in 1..10 : Digits[d] = c

DigitVal(c) == (CHOOSE d \in 1..10 : Digits[d] = c) - 1

\* str.upper() on one character
UpperChar(c) ==
    CASE c = "r" -> "R"
      [] c = "f" -> "F"
      [] c = "l" -> "L"
      [] c = "b" -> "B"
      [] OTHER -> c

Upper(s) == [i \in 1..Len(s) |-> UpperChar(s[i])]

StartsWith(s, p) == Len(s) >= Len(p) /\ SubSeq(s, 1, Len(p)) = p

RECURSIVE DigitsValue(_, _)
DigitsValue(s, acc) ==
    IF s = <<>> THEN acc ELSE DigitsValue(Tail(s), 10 * acc + DigitVal(Head(s)))

AllDigits(s) == s # <<>> /\ \A i \in 1..Len(s) : IsDigit(s[i])

\* int(level): an optional sign followed by decimal digits; anything else
\* raises ValueError (ok = FALSE)
ParseInt(s) ==
    IF s # <<>> /\ Head(s) \in {"-", "+"}
    THEN IF AllDigits(Tail(s))
         THEN [ok |-> TRUE,
               val |-> IF Head(s) = "-" THEN 0 - DigitsValue(Tail(s), 0)
                       ELSE DigitsValue(Tail(s), 0)]
         ELSE [ok |-> FALSE, val |-> 0]
    ELSE IF AllDigits(s) THEN [ok |-> TRUE, val |-> DigitsValue(s, 0)]
         ELSE [ok |-> FALSE, val |-> 0]

RoofKey == 999

floor_sort_key(level) ==
    IF StartsWith(Upper(level), <<"R", "F">>) THEN RoofKey
    ELSE IF StartsWith(Upper(level), <<"L", "B">>) THEN -1
    ELSE IF ParseInt(level).ok THEN ParseInt(level).val
    ELSE 0

\* variant: the floors are taken in the order of the mapping
SortedDesc_AsGiven(keys) == keys

\* sorted(keys, key=floor_sort_key, reverse=True): descending, and stable
\* (labels with equal keys keep their input order)
RECURSIVE InsertDesc(_, _)
InsertDesc(sorted, l) ==
    IF sorted = <<>> THEN <<l>>
    ELSE IF floor_sort_key(Head(sorted)) >= floor_sort_key(l)
         THEN <<Head(sorted)>> \o InsertDesc(Tail(sorted), l)
         ELSE <<l>> \o sorted

RECURSIVE SortedDesc(_)
SortedDesc(keys) ==
    IF keys = <<>> THEN <<>>
    ELSE InsertDesc(SortedDesc(SubSeq(keys, 1, Len(keys) - 1)), keys[Len(keys)])

\* ------------------------------------------------------------------------
\* Input of group_columns_by_alignment: the mapping written by
\* generate_voronoi_floor_plots, floor label -> {"columns": [records]}, in
\* file order.  A floor's list holds the records of the Permanent pass
\* followed by those of the Imposed pass, each pass over the same sites.
\* Field pass is provenance only (which pass emitted the record); no
\* operation reads it.
\* ------------------------------------------------------------------------
L(a, b) == <<a, b>>

Pt(x, y, t) == [X |-> x, Y |-> y, Type |-> t, Area |-> 1500]

PassChoices == {<<"P">>, <<"I">>, <<"P", "I">>}

\* families of inputs: labels, sites, pass sets and weighted areas to draw
\* from, and the most floors of an input
FamAlign ==
    [labels |-> {L("0", "2"), L("0", "1"), L("0", "0"), L("B", "1")},
     sites  |-> {Pt(0, 0, "Column"), Pt(3, 4, "Column"), Pt(4, 4, "Column")},
     passes |-> {<<"P">>},
     w      |-> {1000},
     floors |-> MaxFloors]

FamRoles ==
    [labels |-> {L("0", "2"), L("0", "1")},
     sites  |-> {Pt(x, 0, t) : x \in {0, 9}, t \in {"Column", "Wall", "Foundation"}},
     passes |-> {<<"P">>},
     w      |-> {1000},
     floors |-> MaxFloors]

FamReport ==
    [labels |-> {L("0", "2"), L("0", "1")},
     sites  |-> {Pt(0, 0, "Column"), Pt(6, 8, "Column")},
     passes |-> PassChoices,
     w      |-> {0, 4, 125},
     floors |-> MaxFloors]

FamScenario ==
    [labels |-> {L("0", "2"), L("0", "1")},
     sites  |-> {Pt(0, 0, "Column"), Pt(3, 3, "Column")},
     passes |-> {<<"P">>},
     w      |-> {0, 4, 125},
     floors |-> MaxFloors]

FamLabels ==
    [labels |-> {L("R", "F"), L("r", "f"), L("L", "B"), L("0", "2"), L("0", "1"),
                 L("0", "0"), L("B", "1"), L("-", "2")},
     sites  |-> {Pt(0, 0, "Column")},
     passes |-> {<<"P">>},
     w      |-> {1000},
     floors |-> MaxFloors]

\* a column drifting over three floors
FamChain ==
    [labels |-> {L("0", "2"), L("0", "1"), L("0", "0")},
     sites  |-> {Pt(0, 0, "Column"), Pt(3, 4, "Column"), Pt(4, 4, "Column")},
     passes |-> {<<"P">>},
     w      |-> {1000},
     floors |-> 3]

Families == {FamAlign, FamRoles, FamReport, FamScenario, FamLabels, FamChain}

InjectiveSeqs(S, n) == {s \in [1..n -> S] : \A i, j \in 1..n : s[i] = s[j] => i = j}

\* cut[f] = number of sites on floors 1..f
Cuts(nf, n) ==
    {c \in [0..nf -> 0..n] :
        /\ c[0] = 0
        /\ c[nf] = n
        /\ \A f \in 1..nf : c[f - 1] <= c[f]}

NumRecords(nf, cut, ps, f) ==
    SumSeq([g \in 1..f |-> (cut[g] - cut[g - 1]) * Len(ps[g])])

FloorColumns(sites, cut, ps, w, nf, f) ==
    LET fs  == SubSeq(sites, cut[f - 1] + 1, cut[f])
        off == NumRecords(nf, cut, ps, f - 1)
    IN  Flatten([k \in 1..Len(ps[f]) |->
            [j \in 1..Len(fs) |->
                [X |-> fs[j].X, Y |-> fs[j].Y, Area |-> fs[j].Area,
                 WeightedArea |-> w[off + (k - 1) * Len(fs) + j],
                 Type |-> fs[j].Type, pass |-> ps[f][k]]]])

BuildData(lab, sites, cut, ps, w, nf) ==
    [f \in 1..nf |->
        [floor |-> lab[f], columns |-> FloorColumns(sites, cut, ps, w, nf, f)]]

VARIABLES data, pc, ordered_floors, fi, ci, column_groups, column_id, results,
          floor_data, loading_data, output_data, vpc, vfi, vli,
          df, gpc, gi, ri, all_polygons, merged_floor_data, filled, centroid_data,
          fed,
          reader, cpc, rn, columns_data, walls_data, returned

sumvars == <<data, pc, ordered_floors, fi, ci, column_groups, column_id, results>>

vorvars == <<floor_data, loading_data, output_data, vpc, vfi, vli>>

geovars == <<df, gpc, gi, ri, all_polygons, merged_floor_data, filled, centroid_data,
             fed>>

csvvars == <<reader, cpc, rn, columns_data, walls_data, returned>>

vars == <<sumvars, vorvars, geovars, csvvars>>

\* the CSV converters at rest
CsvIdle ==
    /\ reader = <<>>
    /\ cpc = "idle"
    /\ rn = 1
    /\ columns_data = <<>>
    /\ walls_data = <<>>
    /\ returned = <<>>

\* the outline and foundation pipelines at rest
GeoIdle ==
    /\ df = <<>>
    /\ gpc = "idle"
    /\ gi = 1
    /\ ri = 1
    /\ all_polygons = {}
    /\ merged_floor_data = <<>>
    /\ filled = <<>>
    /\ centroid_data = <<>>
    /\ fed = <<>>

\* the tessellation driver at rest
VorIdle ==
    /\ floor_data = <<>>
    /\ loading_data = <<>>
    /\ output_data = <<>>
    /\ vpc = "idle"
    /\ vfi = 1
    /\ vli = 1

\* the aggregator at rest
SumIdle ==
    /\ data = <<>>
    /\ pc = "idle"
    /\ ordered_floors = <<>>
    /\ fi = 1
    /\ ci = 1
    /\ column_groups = <<>>
    /\ column_id = 1
    /\ results = <<>>

InitData(fam) ==
    \E nf \in 0..fam.floors : \E lab \in InjectiveSeqs(fam.labels, nf) :
    \E n \in 0..MaxRecords : \E sites \in [1..n -> fam.sites] :
    \E cut \in Cuts(nf, n) : \E ps \in [1..nf -> fam.passes] :
        /\ NumRecords(nf, cut, ps, nf) <= MaxRecords
        /\ \E w \in [1..NumRecords(nf, cut, ps, nf) -> fam.w] :
              data = BuildData(lab, sites, cut, ps, w, nf)

Init ==
    /\ \E fam \in Families : InitData(fam)
    /\ pc = "start"
    /\ ordered_floors = <<>>
    /\ fi = 1
    /\ ci = 1
    /\ column_groups = <<>>
    /\ column_id = 1
    /\ results = <<>>
    /\ VorIdle
    /\ GeoIdle
    /\ CsvIdle

\* ------------------------------------------------------------------------
\* group_columns_by_alignment
\* ------------------------------------------------------------------------
\* match_radius = 0.5 m, in decimetres
match_radius == 5

\* floors_data[floor]
floors_data(floor) == data[CHOOSE i \in 1..Len(data) : data[i].floor = floor].columns

\* variant: distance compared with the radius itself instead of its square
WithinRadius_Unsquared(x, y, last_x, last_y) ==
    (x - last_x) * (x - last_x) + (y - last_y) * (y - last_y) <= match_radius

\* math.dist((x, y), (last_x, last_y)) <= match_radius, on exact squares
WithinRadius(x, y, last_x, last_y) ==
    (x - last_x) * (x - last_x) + (y - last_y) * (y - last_y)
        <= match_radius * match_radius

LastPoint(group) == group.points[Len(group.points)]

DistSq(p, x, y) == (x - p.x) * (x - p.x) + (y - p.y) * (y - p.y)

\* variant: the record is compared with the first point of every group
FindMatch_Seed(groups, x, y, i) ==
    LET In == {g \in i..Len(groups) :
                  DistSq(groups[g].points[1], x, y) <= match_radius * match_radius}
    IN  IF In = {} THEN 0 ELSE CHOOSE g \in In : \A h \in In : g <= h

\* variant: best match (the nearest group within the radius) instead of first match
FindMatch_Nearest(groups, x, y, i) ==
    LET In == {g \in i..Len(groups) :
                  DistSq(groups[g].points[Len(groups[g].points)], x, y)
                      <= match_radius * match_radius}
    IN  IF In = {} THEN 0
        ELSE CHOOSE g \in In : \A h \in In :
                \/ DistSq(groups[g].points[Len(groups[g].points)], x, y)
                       < DistSq(groups[h].points[Len(groups[h].points)], x, y)
                \/ /\ DistSq(groups[g].points[Len(groups[g].points)], x, y)
                          = DistSq(groups[h].points[Len(groups[h].points)], x, y)
                   /\ g <= h

\* the inner loop over column_groups with its break: index of the first
\* group whose last point is within the radius, 0 when there is none
RECURSIVE FindMatch(_, _, _, _)
FindMatch(groups, x, y, i) ==
    IF i > Len(groups) THEN 0
    ELSE IF WithinRadius(x, y, LastPoint(groups[i]).x, LastPoint(groups[i]).y) THEN i
    ELSE FindMatch(groups, x, y, i + 1)

PointOf(floor, col) ==
    [floor |-> floor, x |-> col.X, y |-> col.Y, area |-> col.Area,
     w_area |-> col.WeightedArea, ctype |-> col.Type, pass |-> col.pass]

\* variant: a matched record replaces the group's last point
AddRecord_Overwrite(groups, id, floor, col) ==
    LET m == FindMatch(groups, col.X, col.Y, 1)
    IN  IF m # 0
        THEN [groups EXCEPT ![m].points =
                 [@ EXCEPT ![Len(@)] = PointOf(floor, col)]]
        ELSE Append(groups, [id |-> id, points |-> <<PointOf(floor, col)>>])

\* variant: only records of role Column are grouped
AddRecord_ColumnsOnly(groups, id, floor, col) ==
    LET m == FindMatch(groups, col.X, col.Y, 1)
    IN  IF col.Type # "Column" THEN groups
        ELSE IF m # 0
        THEN [groups EXCEPT ![m].points = Append(@, PointOf(floor, col))]
        ELSE Append(groups, [id |-> id, points |-> <<PointOf(floor, col)>>])

\* body of the loop over a floor's records: append to the matched group or
\* open a new one (the id "C%03d" is kept as its number)
AddRecord(groups, id, floor, col) ==
    LET m == FindMatch(groups, col.X, col.Y, 1)
    IN  IF m # 0
        THEN [groups EXCEPT ![m].points = Append(@, PointOf(floor, col))]
        ELSE Append(groups, [id |-> id, points |-> <<PointOf(floor, col)>>])

\* next position of the two nested loops at or after (f, c)
RECURSIVE Seek(_, _, _)
Seek(of, f, c) ==
    IF f > Len(of) THEN <<f, 1>>
    ELSE IF c <= Len(floors_data(of[f])) THEN <<f, c>>
    ELSE Seek(of, f + 1, 1)

\* lines 9-40: read the mapping, order the floors, start the loops
LoadData ==
    /\ pc = "start"
    /\ ordered_floors' = SortedDesc([i \in 1..Len(data) |-> data[i].floor])
    /\ LET pos == Seek(ordered_floors', 1, 1)
       IN  /\ fi' = pos[1]
           /\ ci' = pos[2]
           /\ pc' = IF pos[1] > Len(ordered_floors') THEN "build" ELSE "group"
    /\ UNCHANGED <<data, column_groups, column_id, results, vorvars, geovars, csvvars>>

\* lines 43-61: one iteration of the grouping loops
ProcessRecord ==
    /\ pc = "group"
    /\ LET floor == ordered_floors[fi]
           col   == floors_data(floor)[ci]
           pos   == Seek(ordered_floors, fi, ci + 1)
       IN  /\ column_groups' = AddRecord(column_groups, column_id, floor, col)
           /\ column_id' = IF FindMatch(column_groups, col.X, col.Y, 1) = 0
                            THEN column_id + 1 ELSE column_id
           /\ fi' = pos[1]
           /\ ci' = pos[2]
           /\ pc' = IF pos[1] > Len(ordered_floors) THEN "build" ELSE "group"
    /\ UNCHANGED <<data, ordered_floors, results, vorvars, geovars, csvvars>>

\* round(v, 2) of a non-negative value in thousandths, in hundredths.
\* A value is half-way only when it ends in 5 thousandths; the weighted
\* areas drawn here (0, 0.004, 0.125, 1.0) give half-way sums only at odd
\* multiples of 0.125, which are exact in binary, where round() rounds
\* half to even.
Round2(t) ==
    LET q == t \div 10
        r == t % 10
    IN  IF r < 5 THEN q
        ELSE IF r > 5 THEN q + 1
        ELSE IF q % 2 = 0 THEN q ELSE q + 1

None == <<"None">>

Blank == <<"blank">>

Num(v) == <<"num", v>>

\* weighted_areas[i:i+2] for i in range(0, len, 2)
weighted_pairs(wa) ==
    [k \in 1..((Len(wa) + 1) \div 2) |-> SubSeq(wa, 2 * k - 1, Min2(2 * k, Len(wa)))]

\* variant: the permanent load of a pair is the sum of its elements
perm_loads_Whole(pairs) == [k \in 1..Len(pairs) |-> SumSeq(pairs[k])]

perm_loads(pairs) == [k \in 1..Len(pairs) |-> pairs[k][1]]

\* variant: the last element of every pair, an unpaired one included
imposed_loads_Last(pairs) == [k \in 1..Len(pairs) |-> pairs[k][Len(pairs[k])]]

imposed_loads(pairs) ==
    LET full == IF pairs # <<>> /\ Len(pairs[Len(pairs)]) < 2
                THEN Len(pairs) - 1 ELSE Len(pairs)
    IN  [k \in 1..full |-> pairs[k][2]]

\* variant: no de-duplication of the floors
unique_floors_All(floors) == floors

\* list(dict.fromkeys(floors)): first occurrences, in order
RECURSIVE unique_floors(_)
unique_floors(floors) ==
    IF floors = <<>> THEN <<>>
    ELSE LET u == unique_floors(SubSeq(floors, 1, Len(floors) - 1))
             l == floors[Len(floors)]
         IN  IF l \in Range(u) THEN u ELSE Append(u, l)

\* next(p for p in group["points"] if p[0] == floor)
FirstOnFloor(points, floor) ==
    points[CHOOSE i \in 1..Len(points) :
              /\ points[i].floor = floor
              /\ \A j \in 1..(i - 1) : points[j].floor # floor]

\* variant: a weighted area of 0 is shown as 0
LoadCell_ZeroShown(pairs, i, k) ==
    IF i <= Len(pairs) /\ Len(pairs[i]) >= k
    THEN Num(Round2(pairs[i][k])) ELSE None

\* round(w, 2) if w else None
LoadCell(pairs, i, k) ==
    IF i <= Len(pairs) /\ Len(pairs[i]) >= k /\ pairs[i][k] # 0
    THEN Num(Round2(pairs[i][k])) ELSE None

\* lines 66-104 for one group
GroupRows(group) ==
    LET floors == [i \in 1..Len(group.points) |-> group.points[i].floor]
        wa     == [i \in 1..Len(group.points) |-> group.points[i].w_area]
        pairs  == weighted_pairs(wa)
        uf     == unique_floors(floors)
    IN  [i \in 1..Len(uf) |->
            [id            |-> group.id,
             X             |-> Round2(100 * group.points[1].x),
             Y             |-> Round2(100 * group.points[1].y),
             Floor         |-> uf[i],
             Type          |-> FirstOnFloor(group.points, uf[i]).ctype,
             Area          |-> Round2(FirstOnFloor(group.points, uf[i]).area),
             Permanent     |-> LoadCell(pairs, i, 1),
             Imposed       |-> LoadCell(pairs, i, 2),
             TotalPermanent |-> IF i = 1 THEN Num(Round2(SumSeq(perm_loads(pairs))))
                                ELSE Blank,
             TotalImposed  |-> IF i = 1 THEN Num(Round2(SumSeq(imposed_loads(pairs))))
                                ELSE Blank,
             TotalSLS      |-> IF i = 1 THEN Num(Round2(SumSeq(wa))) ELSE Blank]]

\* lines 64-106: the report rows of every group, in group order
BuildResults ==
    /\ pc = "build"
    /\ results' = Flatten([g \in 1..Len(column_groups) |-> GroupRows(column_groups[g])])
    /\ pc' = "done"
    /\ UNCHANGED <<data, ordered_floors, fi, ci, column_groups, column_id, vorvars, geovars, csvvars>>

Next == LoadData \/ ProcessRecord \/ BuildResults

Spec == Init /\ [][Next]_vars

\* the whole grouping as a fold over an input mapping d holding the floors
\* of data in some order (lines 22 and 43-61)
RECURSIVE GroupFold(_, _, _, _)
GroupFold(of, f, c, groups) ==
    IF f > Len(of) THEN groups
    ELSE IF c > Len(floors_data(of[f])) THEN GroupFold(of, f + 1, 1, groups)
    ELSE GroupFold(of, f, c + 1,
                   AddRecord(groups, Len(groups) + 1, of[f], floors_data(of[f])[c]))

GroupAll(d) == GroupFold(SortedDesc([i \in 1..Len(d) |-> d[i].floor]), 1, 1, <<>>)

\* ------------------------------------------------------------------------
\* Properties
\* ------------------------------------------------------------------------
Grouped == pc \in {"build", "done"}

CurFloor == ordered_floors[fi]

CurCol == floors_data(CurFloor)[ci]

AllPoints(groups) == Flatten([g \in 1..Len(groups) |-> groups[g].points])

At(p, x, y, floor) == p.x = x /\ p.y = y /\ p.floor = floor

\* C1: each processed record is appended to the earliest-created group whose
\* last position is at distance <= match_radius (boundary included), also
\* when a later group is nearer; a new group is opened, with the record as
\* its only point, only when no group is within the radius.
C1_FirstMatchWins ==
    [][pc = "group" =>
        LET p  == PointOf(CurFloor, CurCol)
            In == {g \in 1..Len(column_groups) :
                      DistSq(LastPoint(column_groups[g]), p.x, p.y) <= 25}
        IN  IF In = {}
            THEN column_groups' =
                    Append(column_groups, [id |-> column_id, points |-> <<p>>])
            ELSE \E m \in In :
                    /\ \A g \in In : m <= g
                    /\ column_groups' =
                          [column_groups EXCEPT ![m].points = Append(@, p)]]_vars

\* a record at (3,4) on floor 01 joined the group seeded at (0,0), exactly at
\* the radius, although the later group seeded at (4,4) is nearer
C1_Witness ==
    /\ pc = "done"
    /\ Len(column_groups) = 2
    /\ Len(column_groups[1].points) = 2
    /\ At(column_groups[1].points[1], 0, 0, L("0", "2"))
    /\ At(column_groups[2].points[1], 4, 4, L("0", "2"))
    /\ At(column_groups[1].points[2], 3, 4, L("0", "1"))

\* C2: after grouping, every record of every floor's list is in exactly one
\* group exactly once (counted with multiplicity), and no group is empty.
C2_EveryRecordInOneGroup ==
    Grouped =>
        /\ \A g \in 1..Len(column_groups) : column_groups[g].points # <<>>
        /\ Len(AllPoints(column_groups))
              = SumSeq([f \in 1..Len(data) |-> Len(data[f].columns)])
        /\ \A f \in 1..Len(data) : \A c \in 1..Len(data[f].columns) :
              Count(AllPoints(column_groups), PointOf(data[f].floor, data[f].columns[c]))
                = Count(data[f].columns, data[f].columns[c])

C2_Witness ==
    /\ pc = "done"
    /\ Len(column_groups) = 2
    /\ Len(AllPoints(column_groups)) = 3
    /\ Len(data) = 2

\* C3 (as stated): only records of role Column are members of a group.
C3_OnlyColumnsGrouped ==
    \A g \in 1..Len(column_groups) : \A k \in 1..Len(column_groups[g].points) :
        column_groups[g].points[k].ctype = "Column"

\* C3 (amended): records of every role take part in the grouping: a Wall or
\* Foundation record is appended to a group like a Column record and becomes
\* that group's last position.
C3_AllRolesGrouped ==
    [][(pc = "group" /\ CurCol.Type \in {"Wall", "Foundation"}) =>
        /\ Len(AllPoints(column_groups')) = Len(AllPoints(column_groups)) + 1
        /\ \E g \in 1..Len(column_groups') :
              LastPoint(column_groups'[g]) = PointOf(CurFloor, CurCol)]_vars

\* a Wall record of floor 01 joined the group of a Column record of floor 02
C3_Witness ==
    /\ pc = "done"
    /\ \E g \in 1..Len(column_groups) :
          /\ Len(column_groups[g].points) = 2
          /\ column_groups[g].points[1].ctype = "Column"
          /\ column_groups[g].points[2].ctype = "Wall"
          /\ column_groups[g].points[2].floor # column_groups[g].points[1].floor

IsRF(l) == StartsWith(Upper(l), <<"R", "F">>)

IsLB(l) == StartsWith(Upper(l), <<"L", "B">>)

LabelValue(l) == IF ParseInt(l).ok THEN ParseInt(l).val ELSE 0

\* C4: floors are processed top to bottom: RF labels before every other
\* label, LB labels after every other label, numeric labels by integer
\* value, every other label as zero.
C4_FloorOrder ==
    pc # "start" =>
        \A i, j \in 1..Len(ordered_floors) : i < j =>
            LET a == ordered_floors[i]
                b == ordered_floors[j]
            IN  /\ IsRF(b) => IsRF(a)
                /\ IsLB(a) => IsLB(b)
                /\ (~IsRF(a) /\ ~IsRF(b) /\ ~IsLB(a) /\ ~IsLB(b))
                      => LabelValue(a) >= LabelValue(b)

\* C5: the groups do not depend on the order of the floors in the input
\* mapping: the reversed mapping gives identical groups.
C5_InputOrderIrrelevant ==
    Grouped => column_groups = GroupAll(Reverse(data))

GroupById(id) == column_groups[CHOOSE g \in 1..Len(column_groups) : column_groups[g].id = id]

\* what a row shows for the weighted areas ws of one pass on one floor
Shown(ws) ==
    IF ws = {} THEN {None} ELSE {Num(Round2(w)) : w \in ws} \cup {None : w \in ws \cap {0}}

PassAreas(group, floor, pass) ==
    {group.points[k].w_area : k \in {k \in 1..Len(group.points) :
        group.points[k].floor = floor /\ group.points[k].pass = pass}}

\* C6: the row of (group, floor) reports the permanent-pass weighted area of
\* the group's entry on that floor as permanent load and the imposed-pass
\* weighted area of the group's entry on that floor as imposed load.
C6_RowLoadsByPass ==
    pc = "done" =>
        \A r \in 1..Len(results) :
            LET row == results[r]
                grp == GroupById(row.id)
            IN  /\ row.Permanent \in Shown(PassAreas(grp, row.Floor, "P"))
                /\ row.Imposed \in Shown(PassAreas(grp, row.Floor, "I"))

WeightedAreas(group) == [i \in 1..Len(group.points) |-> group.points[i].w_area]

SumAt(wa, parity) ==
    SumSeq([i \in 1..Len(wa) |-> IF i % 2 = parity THEN wa[i] ELSE 0])

FirstRow(id) == results[CHOOSE r \in 1..Len(results) :
                    results[r].id = id /\ \A q \in 1..(r - 1) : results[q].id # id]

\* C7: per group, with the weighted areas in floor-then-pass order: Total
\* Permanent is the rounded sum of the 1st, 3rd, ... areas (an unpaired last
\* one included), Total Imposed the rounded sum of the 2nd, 4th, ... areas,
\* Total SLS the rounded sum of all of them.
C7_GroupTotals ==
    pc = "done" =>
        \A g \in 1..Len(column_groups) :
            LET wa  == WeightedAreas(column_groups[g])
                row == FirstRow(column_groups[g].id)
            IN  /\ row.TotalPermanent = Num(Round2(SumAt(wa, 1)))
                /\ row.TotalImposed = Num(Round2(SumAt(wa, 0)))
                /\ row.TotalSLS = Num(Round2(SumAt(wa, 0) + SumAt(wa, 1)))

\* a group of three entries with an unpaired, non-zero last weighted area
C7_Witness ==
    /\ pc = "done"
    /\ \E g \in 1..Len(column_groups) :
          /\ Len(column_groups[g].points) = 3
          /\ column_groups[g].points[3].w_area = 125
          /\ column_groups[g].points[2].w_area = 4

RowsOf(id) == SelectSeq(results, LAMBDA row : row.id = id)

FloorIndex(l) == CHOOSE i \in 1..Len(ordered_floors) : ordered_floors[i] = l

\* C8: one row per (group, distinct floor of the group), a group's rows in
\* floor processing order, the three totals on the group's first row only.
C8_ReportLayout ==
    pc = "done" =>
        /\ \A r \in 1..Len(results) :
              \E g \in 1..Len(column_groups) : column_groups[g].id = results[r].id
        /\ \A g \in 1..Len(column_groups) :
              LET rows == RowsOf(column_groups[g].id)
                  pts  == column_groups[g].points
              IN  /\ {rows[i].Floor : i \in 1..Len(rows)}
                        = {pts[k].floor : k \in 1..Len(pts)}
                  /\ \A i, j \in 1..Len(rows) : i < j =>
                        FloorIndex(rows[i].Floor) < FloorIndex(rows[j].Floor)
                  /\ \A i \in 1..Len(rows) :
                        IF i = 1
                        THEN /\ rows[i].TotalPermanent[1] = "num"
                             /\ rows[i].TotalImposed[1] = "num"
                             /\ rows[i].TotalSLS[1] = "num"
                        ELSE /\ rows[i].TotalPermanent = Blank
                             /\ rows[i].TotalImposed = Blank
                             /\ rows[i].TotalSLS = Blank

\* a group with two entries on one floor and one on another: two rows
C8_Witness ==
    /\ pc = "done"
    /\ \E g \in 1..Len(column_groups) :
          /\ Len(column_groups[g].points) = 3
          /\ column_groups[g].points[1].floor = column_groups[g].points[2].floor
          /\ Len(RowsOf(column_groups[g].id)) = 2
    /\ Len(column_groups) = 1

\* the input of the scenario: one record at (0,0) on floor "02", one at
\* (0.3,0.3) on floor "01", in either file order
Scenario ==
    /\ Len(data) = 2
    /\ \A f \in 1..2 : Len(data[f].columns) = 1
    /\ \E f \in 1..2 :
          /\ data[f].floor = L("0", "2")
          /\ data[f].columns[1].X = 0 /\ data[f].columns[1].Y = 0
          /\ data[3 - f].floor = L("0", "1")
          /\ data[3 - f].columns[1].X = 3 /\ data[3 - f].columns[1].Y = 3

ScenarioSum == data[1].columns[1].WeightedArea + data[2].columns[1].WeightedArea

ScenarioGrouping ==
    /\ Len(column_groups) = 1
    /\ Len(results) = 2
    /\ results[1].Floor = L("0", "2")
    /\ results[2].Floor = L("0", "1")

\* C9 (as stated): in the scenario there is one group with two rows, floor
\* 02 then floor 01, and Total SLS equals the sum of the two weighted areas.
C9_ScenarioExactSum ==
    (pc = "done" /\ Scenario) =>
        /\ ScenarioGrouping
        /\ results[1].TotalSLS = <<"num", results[1].TotalSLS[2]>>
        /\ 10 * results[1].TotalSLS[2] = ScenarioSum

\* C9 (amended): ... and Total SLS equals the sum of the two weighted areas
\* rounded to 2 decimals (within half a hundredth of the sum).
C9_ScenarioRoundedSum ==
    (pc = "done" /\ Scenario) =>
        /\ ScenarioGrouping
        /\ results[1].TotalSLS = <<"num", results[1].TotalSLS[2]>>
        /\ 10 * results[1].TotalSLS[2] - ScenarioSum \in -5..5

C9_Witness == pc = "done" /\ Scenario /\ ScenarioSum = 129

\* the records of data in processing order
RecordsInOrder ==
    Flatten([f \in 1..Len(ordered_floors) |->
                [c \in 1..Len(floors_data(ordered_floors[f])) |->
                    PointOf(ordered_floors[f], floors_data(ordered_floors[f])[c])]])

\* p and q are entries of one group
SameGroup(p, q) ==
    \E g \in 1..Len(column_groups) :
        p \in Range(column_groups[g].points) /\ q \in Range(column_groups[g].points)

\* position of a floor in the processing order
OrderOf(floor) == CHOOSE f \in 1..Len(ordered_floors) : ordered_floors[f] = floor

\* C23 (as stated): any two records on successive floors, the lower within
\* match_radius of the upper, end up in one group.
C23_ChainInOneGroup ==
    Grouped =>
        \A p, q \in Range(AllPoints(column_groups)) :
            (OrderOf(q.floor) = OrderOf(p.floor) + 1 /\ WithinRadius(q.x, q.y, p.x, p.y))
                => SameGroup(p, q)

\* the input is one chain: one record per floor, each within match_radius
\* of the record of the floor processed before
InputIsChain ==
    /\ \A f \in 1..Len(data) : Len(data[f].columns) = 1
    /\ \A k \in 1..(Len(RecordsInOrder) - 1) :
          WithinRadius(RecordsInOrder[k + 1].x, RecordsInOrder[k + 1].y,
                       RecordsInOrder[k].x, RecordsInOrder[k].y)

\* C23 (amended): a group is matched at the position of the record appended
\* to it last, never at its seed: every entry of a group is within
\* match_radius of the entry before it, and an input that is one chain of
\* records on successive floors, each within match_radius of the previous
\* one, ends up in one group, also when its last record is farther than
\* match_radius from the first.
C23_MatchedAtLastPosition ==
    /\ \A g \in 1..Len(column_groups) :
          \A k \in 1..(Len(column_groups[g].points) - 1) :
              WithinRadius(column_groups[g].points[k + 1].x, column_groups[g].points[k + 1].y,
                           column_groups[g].points[k].x, column_groups[g].points[k].y)
    /\ (Grouped /\ InputIsChain /\ data # <<>>) =>
          /\ Len(column_groups) = 1
          /\ column_groups[1].points = RecordsInOrder

\* a chain (0,0), (3,4), (4,4) over three floors is one group, its last
\* record farther than match_radius from its first
C23_Witness ==
    /\ pc = "done"
    /\ InputIsChain
    /\ Len(column_groups) = 1
    /\ Len(column_groups[1].points) = 3
    /\ ~WithinRadius(column_groups[1].points[3].x, column_groups[1].points[3].y,
                     column_groups[1].points[1].x, column_groups[1].points[1].y)

\* ------------------------------------------------------------------------
\* generate_voronoi_floor_plots (vornoi5.py)
\*
\* Points are <<x, y>> in decimetres.  The geometry of a floor enters
\* through facts about it: cell_area[i], the area (thousandths) of the
\* region of the i-th site clipped to the floor boundary (0 = empty
\* intersection); cell_left[i], the part of that area lying in the left
\* half of the boundary; and the cover of a load zone: "full" (the zone
\* contains the whole boundary), "left" or "right" (the zone is that half of
\* the boundary) or "none" (disjoint from the boundary).  Sites at the same
\* coordinates have the same region.  Zone weights are in tenths.
\* ------------------------------------------------------------------------
MaxSites == 3

LoadTypes == <<"Permanent Loading", "Imposed Loading">>

\* a 2 m x 2 m floor outline and the unit square, closed rings
Ring == <<L(0, 0), L(20, 0), L(20, 20), L(0, 20), L(0, 0)>>

UnitRing == <<L(0, 0), L(10, 0), L(10, 10), L(0, 10), L(0, 0)>>

\* Polygon(boundary_coords).area in thousandths of a square metre
\* (shoelace sum over the ring, in square decimetres, times 10)
PolygonArea(ring) ==
    LET twice == SumSeq([k \in 1..(Len(ring) - 1) |->
                    ring[k][1] * ring[k + 1][2] - ring[k + 1][1] * ring[k][2]])
    IN  IF ring = <<>> THEN 0
        ELSE 10 * ((IF twice < 0 THEN -twice ELSE twice) \div 2)

Zone(nverts, unit_load, cover) ==
    [nverts |-> nverts, UnitLoad |-> unit_load, cover |-> cover]

\* the loading entry of a floor of each kind: <<Permanent zones, Imposed zones>>
KindZones(kind) ==
    CASE kind = "both"     -> <<(<<Zone(4, None, "full")>>), (<<Zone(4, None, "full")>>)>>
      [] kind = "permOnly" -> <<(<<Zone(4, Num(25), "full"), Zone(3, None, "none")>>), <<>>>>
      [] kind = "impOnly"  -> <<(<<>>), (<<Zone(4, None, "full")>>)>>
      [] kind = "invalid"  -> <<(<<Zone(2, None, "full")>>), (<<Zone(4, None, "full")>>)>>
      [] kind = "overlap"  -> <<(<<Zone(4, None, "full"), Zone(4, Num(25), "full")>>),
                                (<<Zone(4, None, "left"), Zone(4, None, "full")>>)>>
      [] kind = "split"    -> <<(<<Zone(4, None, "left"), Zone(4, Num(25), "right")>>),
                                (<<Zone(4, None, "left"), Zone(3, Num(25), "none")>>)>>
      [] kind = "uplift"   -> <<(<<Zone(4, Num(-5), "left")>>), (<<Zone(4, None, "right")>>)>>
      [] OTHER             -> <<(<<Zone(4, None, "full")>>), (<<Zone(4, None, "full")>>)>>

PosList == <<L(0, 0), L(10, 0), L(0, 10), L(10, 10)>>

Site(pos, role) == [pos |-> pos, role |-> role]

\* the clipped region of a site: its area and the part in the left half
Cell(area, left) == [area |-> area, left |-> left]

BaseSite(pos, role, cell) == [pos |-> pos, role |-> role, cell |-> cell]

Roles == {"Column", "Wall", "Foundation"}

\* families of inputs of the tessellation driver.  base: sites every floor
\* of the family has; sites, cells: what the further sites are drawn from;
\* keep, coin: what the library does with sites at the same coordinates
\* (see voronoi_finite_polygons_2d); floors: the most floors of a run
FamSites ==
    [auto  |-> FALSE,
     ring  |-> Ring,
     base  |-> <<>>,
     sites |-> {Site(q, "Column") : q \in {L(0, 0), L(10, 0), L(0, 10)}},
     kinds |-> {"both"},
     cells |-> {Cell(1000, 500)},
     keep  |-> {"first"},
     coin  |-> {"skipped"},
     floors |-> MaxFloors]

FamFloors ==
    [auto  |-> TRUE,
     ring  |-> Ring,
     base  |-> <<>>,
     sites |-> {Site(L(0, 0), "Column")},
     kinds |-> {"both", "permOnly", "impOnly", "invalid", "noLoading", "noBoundary"},
     cells |-> {Cell(0, 0), Cell(1000, 500)},
     keep  |-> {"first"},
     coin  |-> {"skipped"},
     floors |-> MaxFloors]

\* three columns in general position on every floor, the third with its
\* region outside the boundary, and further sites of every role on top of
\* the first column or at a fourth position
FamDup ==
    [auto  |-> FALSE,
     ring  |-> Ring,
     base  |-> <<BaseSite(L(0, 0), "Column", Cell(1000, 500)),
                 BaseSite(L(10, 0), "Column", Cell(600, 600)),
                 BaseSite(L(0, 10), "Column", Cell(0, 0))>>,
     sites |-> {Site(L(0, 0), r) : r \in Roles} \cup {Site(L(10, 10), "Column")},
     kinds |-> {"both"},
     cells |-> {Cell(1000, 500)},
     keep  |-> {"first", "last"},
     coin  |-> {"skipped", "empty"},
     floors |-> 1]

\* three columns whose regions lie across, left of and outside the
\* boundary, under zone sets that overlap, split the floor or pull upwards
FamZones ==
    [auto  |-> FALSE,
     ring  |-> Ring,
     base  |-> <<BaseSite(L(0, 0), "Column", Cell(1000, 400)),
                 BaseSite(L(10, 0), "Column", Cell(600, 600)),
                 BaseSite(L(0, 10), "Column", Cell(0, 0))>>,
     sites |-> {Site(L(20, 20), "Column")},
     kinds |-> {"overlap", "split", "uplift"},
     cells |-> {Cell(500, 0), Cell(1000, 400)},
     keep  |-> {"first"},
     coin  |-> {"skipped"},
     floors |-> 2]

\* the unit square with one site in its middle, or two sites side by side
FamUnit ==
    [auto  |-> FALSE,
     ring  |-> UnitRing,
     base  |-> <<>>,
     sites |-> {Site(L(5, 5), "Column"), Site(L(2, 5), "Column")},
     kinds |-> {"both"},
     cells |-> {Cell(1000, 500), Cell(500, 500)},
     keep  |-> {"first"},
     coin  |-> {"skipped"},
     floors |-> 1]

VFamilies == {FamSites, FamFloors, FamDup, FamZones, FamUnit}

VLevel(f) == L("0", Digits[f + 1])

\* The regions built for sites at the four positions of PosList (lines
\* 34-65): center = (5, 5), radius = 2 * 10 = 20, the one vertex of the
\* diagram is (5, 5), and every region is that vertex with two far points
\* 20 away along the axes: (5, -15), (-15, 5) for the site (0, 0);
\* (5, -15), (25, 5) for (10, 0); (-15, 5), (5, 25) for (0, 10); (25, 5),
\* (5, 25) for (10, 10).  Clipped to Ring these triangles are the rectangles
\* [0,5]x[0,5], [5,20]x[0,5], [0,5]x[5,20] and the square [5,20]x[5,20]
\* without its corner x + y > 30: areas 0.25, 0.75, 0.75, 1.75 m2, of which
\* 0.25, 0.25, 0.75, 0.75 m2 lie in the left half x <= 10.
SquareCell(pos) ==
    CASE pos = L(0, 0)  -> Cell(250, 250)
      [] pos = L(10, 0) -> Cell(750, 250)
      [] pos = L(0, 10) -> Cell(750, 750)
      [] OTHER          -> Cell(1750, 750)

\* the sites stand on all four positions of PosList, inside Ring
SquareLayout(ring, points) ==
    ring = Ring /\ Range(points) = Range(PosList)

VFloor(fam, sites, cut, kind, cells, keep, coin, f) ==
    LET n   == cut[f] - cut[f - 1]
        at  == fam.base \o
               [j \in 1..n |->
                   [pos  |-> IF fam.auto THEN PosList[((j - 1) % 4) + 1]
                             ELSE sites[cut[f - 1] + j].pos,
                    role |-> sites[cut[f - 1] + j].role,
                    cell |-> cells[cut[f - 1] + j]]]
        of(role) == SelectSeq(at, LAMBDA a : a.role = role)
        ordered  == of("Column") \o of("Wall") \o of("Foundation")
        pts(role) == [j \in 1..Len(of(role)) |-> of(role)[j].pos]
        \* the region of a position is that of the first site there
        first(j) == CHOOSE i \in 1..j :
                       /\ ordered[i].pos = ordered[j].pos
                       /\ \A h \in 1..(i - 1) : ordered[h].pos # ordered[j].pos
        square   == SquareLayout(fam.ring, [j \in 1..Len(ordered) |-> ordered[j].pos])
        cell(j)  == IF square THEN SquareCell(ordered[j].pos)
                    ELSE ordered[first(j)].cell
    IN  [floor_level    |-> VLevel(f),
         floor_boundary |-> IF kind[f] = "noBoundary" THEN <<>> ELSE fam.ring,
         columns        |-> pts("Column"),
         walls          |-> pts("Wall"),
         foundations    |-> pts("Foundation"),
         cell_area      |-> [j \in 1..Len(ordered) |-> cell(j).area],
         cell_left      |-> [j \in 1..Len(ordered) |-> cell(j).left],
         keep           |-> keep,
         coin           |-> coin]

VLoading(kind, nf) ==
    LET with == SelectSeq([f \in 1..nf |-> f], LAMBDA f : kind[f] # "noLoading")
    IN  [k \in 1..Len(with) |->
            [key       |-> VLevel(with[k]),
             Permanent |-> KindZones(kind[with[k]])[1],
             Imposed   |-> KindZones(kind[with[k]])[2]]]

all_points(floor) == floor.columns \o floor.walls \o floor.foundations

\* the sites that are the first of their position
Distinct(points) ==
    {i \in 1..Len(points) : \A h \in 1..(i - 1) : points[h] # points[i]}

RECURSIVE SumOver(_, _)
SumOver(f, S) ==
    IF S = {} THEN 0
    ELSE LET x == CHOOSE y \in S : TRUE IN f[x] + SumOver(f, S \ {x})

\* the clipped regions of a floor lie side by side inside its boundary
Consistent(floor) ==
    SumOver(floor.cell_area, Distinct(all_points(floor))) <= PolygonArea(floor.floor_boundary)
        \/ floor.floor_boundary = <<>>

InitVData(fam) ==
    \E nf \in 0..Min2(MaxFloors, fam.floors) : \E n \in 0..MaxSites :
    \E sites \in [1..n -> fam.sites] : \E cut \in Cuts(nf, n) :
    \E kind \in [1..nf -> fam.kinds] : \E cells \in [1..n -> fam.cells] :
    \E keep \in fam.keep : \E coin \in fam.coin :
        /\ floor_data = [f \in 1..nf |->
                            VFloor(fam, sites, cut, kind, cells, keep, coin, f)]
        /\ \A f \in 1..nf : Consistent(floor_data[f])
        /\ loading_data = VLoading(kind, nf)

InitV ==
    /\ \E fam \in VFamilies : InitVData(fam)
    /\ output_data = <<>>
    /\ vpc = "floor"
    /\ vfi = 1
    /\ vli = 1
    /\ SumIdle
    /\ GeoIdle
    /\ CsvIdle

\* variant of the guard: fewer than 2 sites
TooFewSites_Two(interior_points) == Len(interior_points) < 2

\* not interior_points or len(interior_points) < 3
TooFewSites(interior_points) == Len(interior_points) < 3

Cross(a, b, c) == (b[1] - a[1]) * (c[2] - a[2]) - (b[2] - a[2]) * (c[1] - a[1])

\* scipy.spatial.Voronoi(points) raises QhullError when the sites span no
\* triangle (fewer than 3 distinct sites, or all sites on one line)
QhullError(points) ==
    \A i, j, k \in 1..Len(points) : Cross(points[i], points[j], points[k]) = 0

\* Of the sites at one position the library makes one the vertex of the
\* diagram (the first or the last of them, floor.keep) and the others
\* coincident points.
IsVertex(floor, points, i) ==
    IF floor.keep = "first"
    THEN \A h \in 1..(i - 1) : points[h] # points[i]
    ELSE \A h \in (i + 1)..Len(points) : points[h] # points[i]

\* lines 26-66: the regions list, each entry the site whose region it is
\* (0: an empty region).  A vertex site gets its own region (lines 41-65).
\* The point_region of a coincident point names a region that is not its
\* own, and all_ridges has no ridge for it (line 45), so only the finite
\* vertices of that region are kept: in the layouts drawn here every region
\* is unbounded with fewer than 3 finite vertices, so either the entry is
\* dropped by the continue of lines 59-60 and every later region moves up
\* one index (floor.coin = "skipped"), or the region named is the empty one
\* and is appended as it is (lines 41-43, floor.coin = "empty").
voronoi_finite_polygons_2d(floor, points) ==
    LET entry == [i \in 1..Len(points) |->
                     IF IsVertex(floor, points, i) THEN i ELSE 0]
    IN  SelectSeq(entry, LAMBDA e : e # 0 \/ floor.coin = "empty")

\* weighted_zones of a pass (lines 145-155); unit load defaults 1.0 / 0.8
weighted_zones(load_zones, load_type) ==
    LET valid == SelectSeq(load_zones, LAMBDA z : z.nverts >= 3)
    IN  [k \in 1..Len(valid) |->
            [cover  |-> valid[k].cover,
             weight |-> IF valid[k].UnitLoad = None
                        THEN (IF load_type = "Permanent Loading" THEN 10 ELSE 8)
                        ELSE valid[k].UnitLoad[2]]]

\* variant: a zone that meets the cell counts the whole cell
InterArea_WholeCell(floor, o, cover) ==
    IF cover = "none" THEN 0 ELSE floor.cell_area[o]

\* poly.intersection(zone["polygon"]).area for the region of site o
InterArea(floor, o, cover) ==
    CASE cover = "full"  -> floor.cell_area[o]
      [] cover = "left"  -> floor.cell_left[o]
      [] cover = "right" -> floor.cell_area[o] - floor.cell_left[o]
      [] OTHER           -> 0

\* variant: the sum is capped at the cell's area times the largest weight
weighted_sum_Clamped(floor, o, zones) ==
    LET sum == SumSeq([k \in 1..Len(zones) |->
                   (InterArea(floor, o, zones[k].cover) * zones[k].weight) \div 10])
        top == CHOOSE w \in {zones[k].weight : k \in 1..Len(zones)} :
                   \A k \in 1..Len(zones) : zones[k].weight <= w
    IN  Min2(sum, (floor.cell_area[o] * top) \div 10)

\* weighted_sum of one clipped cell (lines 83-88)
weighted_sum(floor, o, zones) ==
    SumSeq([k \in 1..Len(zones) |->
               (InterArea(floor, o, zones[k].cover) * zones[k].weight) \div 10])

\* variant: a single site is given the whole boundary as its cell
compute_weighted_voronoi_LoneSite(floor, interior_points, zones) ==
    IF Len(interior_points) = 1
    THEN [error   |-> FALSE,
          results |-> <<[index         |-> 1,
                         point         |-> interior_points[1],
                         area_raw      |-> PolygonArea(floor.floor_boundary),
                         area_weighted |-> weighted_sum(floor, 1, zones)]>>]
    ELSE IF TooFewSites(interior_points) THEN [error |-> FALSE, results |-> <<>>]
    ELSE [error |-> QhullError(interior_points), results |-> <<>>]

\* lines 68-96: [error, results]
compute_weighted_voronoi(floor, interior_points, zones) ==
    IF TooFewSites(interior_points) THEN [error |-> FALSE, results |-> <<>>]
    ELSE IF QhullError(interior_points) THEN [error |-> TRUE, results |-> <<>>]
    ELSE LET regions == voronoi_finite_polygons_2d(floor, interior_points)
             kept == SelectSeq([i \in 1..Len(regions) |-> i],
                         LAMBDA i : regions[i] # 0 /\ floor.cell_area[regions[i]] > 0)
         IN  [error   |-> FALSE,
              results |-> [k \in 1..Len(kept) |->
                  [index         |-> kept[k],
                   point         |-> interior_points[kept[k]],
                   area_raw      |-> floor.cell_area[regions[kept[k]]],
                   area_weighted |-> weighted_sum(floor, regions[kept[k]], zones)]]]

HasLoading(level) == \E k \in 1..Len(loading_data) : loading_data[k].key = level

LoadingOf(level) ==
    loading_data[CHOOSE k \in 1..Len(loading_data) : loading_data[k].key = level]

\* lines 183-189: the record appended for one region
OutRecord(floor, region, load_type) ==
    [X            |-> region.point[1],
     Y            |-> region.point[2],
     Area         |-> region.area_raw,
     WeightedArea |-> region.area_weighted,
     Type         |-> IF region.point \in Range(floor.walls) THEN "Wall"
                      ELSE IF region.point \in Range(floor.foundations) THEN "Foundation"
                      ELSE "Column",
     pass         |-> IF load_type = "Permanent Loading" THEN "P" ELSE "I"]

\* lines 112-138: take the next floor; skip it without a boundary, else
\* enter it in output_data and go on to its passes when it has loading data
StartFloor ==
    /\ vpc = "floor"
    /\ vfi <= Len(floor_data)
    /\ LET floor == floor_data[vfi]
       IN  IF floor.floor_boundary = <<>>
           THEN /\ vfi' = vfi + 1
                /\ UNCHANGED <<output_data, vpc, vli>>
           ELSE /\ output_data' = Append(output_data,
                      [floor_level    |-> floor.floor_level,
                       floor_boundary |-> floor.floor_boundary,
                       columns        |-> <<>>,
                       walls          |-> floor.walls,
                       foundations    |-> <<>>])
                /\ IF HasLoading(floor.floor_level)
                   THEN vpc' = "pass" /\ vli' = 1 /\ vfi' = vfi
                   ELSE vpc' = "floor" /\ vli' = vli /\ vfi' = vfi + 1
    /\ UNCHANGED <<floor_data, loading_data, sumvars, geovars, csvvars>>

\* lines 140-204: one load-type pass over the current floor
RunPass ==
    /\ vpc = "pass"
    /\ LET floor      == floor_data[vfi]
           load_type  == LoadTypes[vli]
           load_zones == IF vli = 1 THEN LoadingOf(floor.floor_level).Permanent
                         ELSE LoadingOf(floor.floor_level).Imposed
           zones      == weighted_zones(load_zones, load_type)
           out        == compute_weighted_voronoi(floor, all_points(floor), zones)
           last       == Len(output_data)
       IN  IF zones # <<>> /\ out.error
           THEN /\ vpc' = "error"
                /\ UNCHANGED <<output_data, vfi, vli>>
           ELSE /\ output_data' =
                      IF zones = <<>> THEN output_data
                      ELSE [output_data EXCEPT ![last].columns =
                               @ \o [k \in 1..Len(out.results) |->
                                        OutRecord(floor, out.results[k], load_type)]]
                /\ IF vli < Len(LoadTypes)
                   THEN vli' = vli + 1 /\ vfi' = vfi /\ vpc' = "pass"
                   ELSE vli' = 1 /\ vfi' = vfi + 1 /\ vpc' = "floor"
    /\ UNCHANGED <<floor_data, loading_data, sumvars, geovars, csvvars>>

\* lines 206-212: every floor taken, the mapping is saved
SaveResults ==
    /\ vpc = "floor"
    /\ vfi > Len(floor_data)
    /\ vpc' = "done"
    /\ UNCHANGED <<floor_data, loading_data, output_data, vfi, vli, sumvars, geovars, csvvars>>

NextV == StartFloor \/ RunPass \/ SaveResults

SpecV == InitV /\ [][NextV]_vars

\* the floor of floor_data[f] has been taken by the loop
Taken(f) == vfi > f \/ (vfi = f /\ vpc \in {"pass", "error"})

OutputOf(level) ==
    output_data[CHOOSE k \in 1..Len(output_data) : output_data[k].floor_level = level]

InOutput(level) == \E k \in 1..Len(output_data) : output_data[k].floor_level = level

\* C10: a floor (with a boundary) that supplies fewer than 3 sites, none
\* included, raises no error in its passes and is present in the output
\* with no tessellation records.
C10_FewSitesEmptyNoError ==
    \A f \in 1..Len(floor_data) :
        (Taken(f) /\ floor_data[f].floor_boundary # <<>>
                  /\ Len(all_points(floor_data[f])) < 3) =>
            /\ ~(vpc = "error" /\ vfi = f)
            /\ InOutput(floor_data[f].floor_level)
            /\ OutputOf(floor_data[f].floor_level).columns = <<>>

\* a floor with two sites and both zone sets went through its passes
C10_Witness ==
    /\ vpc = "done"
    /\ \E f \in 1..Len(floor_data) :
          /\ Len(all_points(floor_data[f])) = 2
          /\ floor_data[f].floor_boundary # <<>>
          /\ HasLoading(floor_data[f].floor_level)
          /\ LoadingOf(floor_data[f].floor_level).Permanent # <<>>
          /\ LoadingOf(floor_data[f].floor_level).Imposed # <<>>
          /\ OutputOf(floor_data[f].floor_level).columns = <<>>

\* ------------------------------------------------------------------------
\* Properties of the tessellation driver
\* ------------------------------------------------------------------------
\* the pass of load type LoadTypes[li] over floor_data[f] has been taken
PassTaken(f, li) == vfi > f \/ (vfi = f /\ vpc = "pass" /\ vli > li)

\* the records a pass left in the floor's list
PassRecords(level, p) == SelectSeq(OutputOf(level).columns, LAMBDA r : r.pass = p)

\* floor_data[f] is the unit square with the single site (0.5, 0.5) and one
\* Permanent zone of weight 1.0 over the whole square
UnitScenario(f) ==
    /\ floor_data[f].floor_boundary = UnitRing
    /\ all_points(floor_data[f]) = <<L(5, 5)>>
    /\ floor_data[f].cell_area = <<PolygonArea(UnitRing)>>
    /\ HasLoading(floor_data[f].floor_level)
    /\ LoadingOf(floor_data[f].floor_level).Permanent = <<Zone(4, None, "full")>>

\* C11: for the unit-square boundary with the single support point
\* (0.5, 0.5) and one zone of weight 1.0 over the whole square, the
\* Permanent pass leaves exactly one cell: the whole square, raw area 1.0,
\* weighted area 1.0.
C11_SingleSiteWholeSquare ==
    \A f \in 1..Len(floor_data) :
        (UnitScenario(f) /\ PassTaken(f, 1)) =>
            LET recs == PassRecords(floor_data[f].floor_level, "P")
            IN  /\ Len(recs) = 1
                /\ recs[1].X = 5 /\ recs[1].Y = 5
                /\ recs[1].Area = 1000
                /\ recs[1].WeightedArea = 1000

\* C11 (amended): ... the Permanent pass leaves no cell: one support point
\* is fewer than the 3 the tessellation needs; the floor is in the output
\* with an empty list.
C11_SingleSiteNoCell ==
    \A f \in 1..Len(floor_data) :
        (UnitScenario(f) /\ PassTaken(f, 1)) =>
            /\ InOutput(floor_data[f].floor_level)
            /\ OutputOf(floor_data[f].floor_level).columns = <<>>

\* the Permanent pass was taken on a floor of the scenario
C11_Witness ==
    \E f \in 1..Len(floor_data) :
        /\ UnitScenario(f) /\ PassTaken(f, 1)
        /\ OutputOf(floor_data[f].floor_level).floor_boundary = UnitRing

\* the pass of load type LoadTypes[li] runs on floor_data[f]: the floor has
\* a boundary, a loading entry and a valid zone of that type
PassRuns(f, li) ==
    /\ floor_data[f].floor_boundary # <<>>
    /\ HasLoading(floor_data[f].floor_level)
    /\ LET entry == LoadingOf(floor_data[f].floor_level)
       IN  weighted_zones(IF li = 1 THEN entry.Permanent ELSE entry.Imposed,
                          LoadTypes[li]) # <<>>

PassTag(li) == IF li = 1 THEN "P" ELSE "I"

\* floors whose cells the model has from the construction itself: with
\* fewer than 3 sites none is built, and the regions of the square layout
\* are those of SquareCell
KnownCells(f) ==
    \/ Len(all_points(floor_data[f])) < 3
    \/ SquareLayout(floor_data[f].floor_boundary, all_points(floor_data[f]))

\* C12: on every floor, for every number (at least one) and placement of
\* support points, the raw areas of the cells one pass emits sum to the area
\* of the floor boundary.
C12_RawAreasSumToBoundary ==
    \A f \in 1..Len(floor_data) : \A li \in 1..2 :
        (PassRuns(f, li) /\ PassTaken(f, li) /\ KnownCells(f)
            /\ Len(all_points(floor_data[f])) >= 1) =>
            LET recs == PassRecords(floor_data[f].floor_level, PassTag(li))
            IN  SumSeq([k \in 1..Len(recs) |-> recs[k].Area])
                    = PolygonArea(floor_data[f].floor_boundary)

\* the weighted zones of pass li on floor_data[f]
ZonesOf(f, li) ==
    LET entry == LoadingOf(floor_data[f].floor_level)
    IN  weighted_zones(IF li = 1 THEN entry.Permanent ELSE entry.Imposed, LoadTypes[li])

\* the largest zone weight of a pass (tenths)
MaxWeight(zones) ==
    CHOOSE w \in {zones[k].weight : k \in 1..Len(zones)} :
        \A k \in 1..Len(zones) : zones[k].weight <= w

\* two zones share area inside the floor boundary
Overlap(c1, c2) ==
    /\ c1 # "none" /\ c2 # "none"
    /\ (c1 = "full" \/ c2 = "full" \/ c1 = c2)

DisjointZones(zones) ==
    \A j, k \in 1..Len(zones) : j # k => ~Overlap(zones[j].cover, zones[k].cover)

\* every record of the pass has weighted area <= raw area x largest weight
WeightedBounded(f, li) ==
    LET recs == PassRecords(floor_data[f].floor_level, PassTag(li))
    IN  \A k \in 1..Len(recs) :
            10 * recs[k].WeightedArea <= recs[k].Area * MaxWeight(ZonesOf(f, li))

\* C13: for every emitted cell the weighted area is at most the raw area
\* times the largest zone weight of the pass, for every set of load zones,
\* overlapping ones included.
C13_WeightedAtMostRawTimesMax ==
    \A f \in 1..Len(floor_data) : \A li \in 1..2 :
        (PassRuns(f, li) /\ PassTaken(f, li)) => WeightedBounded(f, li)

\* C13 (amended): ... for every set of load zones with non-negative weights
\* no two of which overlap inside the floor boundary.
C13_WeightedAtMostRawTimesMaxDisjoint ==
    \A f \in 1..Len(floor_data) : \A li \in 1..2 :
        (PassRuns(f, li) /\ PassTaken(f, li)
            /\ DisjointZones(ZonesOf(f, li))
            /\ \A k \in 1..Len(ZonesOf(f, li)) : ZonesOf(f, li)[k].weight >= 0) =>
            WeightedBounded(f, li)

\* a pass over two disjoint zones of different weights left a record of a
\* cell that lies in both
C13_Witness ==
    \E f \in 1..Len(floor_data) :
        /\ PassRuns(f, 1) /\ PassTaken(f, 1)
        /\ Len(ZonesOf(f, 1)) = 2 /\ DisjointZones(ZonesOf(f, 1))
        /\ ZonesOf(f, 1)[1].weight = 10 /\ ZonesOf(f, 1)[2].weight = 25
        /\ \E k \in 1..Len(OutputOf(floor_data[f].floor_level).columns) :
              LET r == OutputOf(floor_data[f].floor_level).columns[k]
              IN  r.pass = "P" /\ r.Area = 1000 /\ r.WeightedArea = 1900

\* the sites whose regions the records of a pass on floor_data[f] describe,
\* in the order of the records
Owners(f) ==
    LET floor == floor_data[f]
    IN  IF TooFewSites(all_points(floor)) \/ QhullError(all_points(floor)) THEN <<>>
        ELSE SelectSeq(voronoi_finite_polygons_2d(floor, all_points(floor)),
                       LAMBDA o : o # 0 /\ floor.cell_area[o] > 0)

\* the sum of the weights of the zones that contain the given half
WeightOver(zones, half) ==
    SumSeq([k \in 1..Len(zones) |->
               IF zones[k].cover \in {"full", half} THEN zones[k].weight ELSE 0])

\* C14: the weighted area of every emitted cell is the sum, over the zones
\* of the pass, of the area the clipped cell shares with the zone times the
\* zone's weight: every zone over a part of the cell counts in full there,
\* with no clamp, and a cell that no zone meets has weighted area 0.
C14_WeightedIsSumOverZones ==
    \A f \in 1..Len(floor_data) : \A li \in 1..2 :
        (PassRuns(f, li) /\ PassTaken(f, li)) =>
            LET recs  == PassRecords(floor_data[f].floor_level, PassTag(li))
                zones == ZonesOf(f, li)
                left(o)  == floor_data[f].cell_left[o]
                right(o) == floor_data[f].cell_area[o] - floor_data[f].cell_left[o]
            IN  /\ Len(recs) = Len(Owners(f))
                /\ \A k \in 1..Len(recs) :
                      10 * recs[k].WeightedArea =
                          left(Owners(f)[k]) * WeightOver(zones, "left")
                        + right(Owners(f)[k]) * WeightOver(zones, "right")

\* two zones of weights 1.0 and 2.5 over the same cell of raw area 1.0 gave
\* weighted area 3.5, and a cell outside the only zone of its pass gave 0
C14_Witness ==
    /\ \E f \in 1..Len(floor_data) :
          /\ PassRuns(f, 1) /\ PassTaken(f, 1)
          /\ Len(ZonesOf(f, 1)) = 2 /\ ~DisjointZones(ZonesOf(f, 1))
          /\ \E k \in 1..Len(PassRecords(floor_data[f].floor_level, "P")) :
                LET r == PassRecords(floor_data[f].floor_level, "P")[k]
                IN  r.Area = 1000 /\ r.WeightedArea = 3500
    /\ \E g \in 1..Len(floor_data) :
          /\ PassRuns(g, 1) /\ PassTaken(g, 1)
          /\ \E k \in 1..Len(PassRecords(floor_data[g].floor_level, "P")) :
                LET r == PassRecords(floor_data[g].floor_level, "P")[k]
                IN  r.Area = 500 /\ r.WeightedArea = 0

\* what compute_weighted_voronoi returns for pass li on floor_data[f]
ResultsOf(f, li) ==
    compute_weighted_voronoi(floor_data[f], all_points(floor_data[f]), ZonesOf(f, li)).results

\* C15: in a pass that runs on a floor with at least 3 sites, a record is
\* emitted for a support point exactly when its cell meets the floor
\* boundary, no support point gets more than one record in the pass, and no
\* emitted cell has a raw area above the area of the boundary.
C15_RecordIffCellMeetsBoundary ==
    \A f \in 1..Len(floor_data) : \A li \in 1..2 :
        (PassRuns(f, li) /\ PassTaken(f, li) /\ Len(all_points(floor_data[f])) >= 3) =>
            LET res == ResultsOf(f, li)
            IN  /\ Len(PassRecords(floor_data[f].floor_level, PassTag(li))) = Len(res)
                /\ \A i \in 1..Len(all_points(floor_data[f])) :
                      /\ (\E k \in 1..Len(res) : res[k].index = i)
                            <=> floor_data[f].cell_area[i] > 0
                      /\ Cardinality({k \in 1..Len(res) : res[k].index = i}) <= 1
                /\ \A k \in 1..Len(res) :
                      res[k].area_raw <= PolygonArea(floor_data[f].floor_boundary)

\* the role of the i-th support point of a floor: all_points lists the
\* columns, then the wall points, then the foundations
RoleAt(floor, i) ==
    IF i <= Len(floor.columns) THEN "Column"
    ELSE IF i <= Len(floor.columns) + Len(floor.walls) THEN "Wall"
    ELSE "Foundation"

\* C16: every tessellation record carries the role tag of the support point
\* it was emitted for, also when support points of different roles have
\* identical coordinates.
C16_RecordCarriesRoleOfItsPoint ==
    \A f \in 1..Len(floor_data) : \A li \in 1..2 :
        (PassRuns(f, li) /\ PassTaken(f, li)) =>
            LET res  == ResultsOf(f, li)
                recs == PassRecords(floor_data[f].floor_level, PassTag(li))
            IN  /\ Len(recs) = Len(res)
                /\ \A k \in 1..Len(res) :
                      recs[k].Type = RoleAt(floor_data[f], res[k].index)

\* the records of pass li on floor_data[f] emitted for support point i
RecordsFor(f, li, i) ==
    LET res  == ResultsOf(f, li)
        recs == PassRecords(floor_data[f].floor_level, PassTag(li))
    IN  IF Len(recs) # Len(res) THEN <<>>
        ELSE [k \in 1..Len(SelectSeq(res, LAMBDA r : r.index = i)) |->
                 recs[CHOOSE j \in 1..Len(res) :
                        /\ res[j].index = i
                        /\ Cardinality({h \in 1..j : res[h].index = i}) = k]]

\* C17: on a floor with both a Permanent and an Imposed zone set (and at
\* least 3 sites, so that cells are built), every support point whose
\* clipped cell is not empty has exactly two records in
\* the floor's list, the permanent one before the imposed one, with the
\* point's coordinates and the same raw area; the values of a pass's records
\* are those computed from the zones of that pass alone.
C17_TwoRecordsPerCell ==
    \A f \in 1..Len(floor_data) :
        (PassRuns(f, 1) /\ PassRuns(f, 2) /\ PassTaken(f, 2)
            /\ Len(all_points(floor_data[f])) >= 3) =>
            LET floor == floor_data[f]
                cols  == OutputOf(floor.floor_level).columns
                perm  == PassRecords(floor.floor_level, "P")
                imp   == PassRecords(floor.floor_level, "I")
            IN  /\ cols = perm \o imp
                /\ \A i \in 1..Len(all_points(floor)) :
                      floor.cell_area[i] > 0 =>
                          /\ Len(RecordsFor(f, 1, i)) = 1
                          /\ Len(RecordsFor(f, 2, i)) = 1
                          /\ RecordsFor(f, 1, i)[1].X = all_points(floor)[i][1]
                          /\ RecordsFor(f, 1, i)[1].Y = all_points(floor)[i][2]
                          /\ RecordsFor(f, 2, i)[1].X = RecordsFor(f, 1, i)[1].X
                          /\ RecordsFor(f, 2, i)[1].Y = RecordsFor(f, 1, i)[1].Y
                          /\ RecordsFor(f, 2, i)[1].Area = RecordsFor(f, 1, i)[1].Area
                          /\ RecordsFor(f, 1, i)[1].Area = floor.cell_area[i]
                /\ \A li \in 1..2 :
                      PassRecords(floor.floor_level, PassTag(li)) =
                          [k \in 1..Len(ResultsOf(f, li)) |->
                              OutRecord(floor, ResultsOf(f, li)[k], LoadTypes[li])]

\* ------------------------------------------------------------------------
\* Outlines from boundary segments: generate_merged_floor_json
\* (LTD_floor4.py) and generate_foundation_json (LTD_foundation2.py)
\*
\* Geometry lives on a strip one metre high.  Points are <<x, y>> with x in
\* half metres and y = 0 or y = 1 (metres); a segment runs along the bottom
\* line (y = 0), along the top line (y = 1) or straight across at one x.
\* The polygons of this world are the rectangles [lo, hi] x [0, 1], written
\* Box(lo, hi, nodes), nodes being the x of further vertices on the long
\* edges; areas are kept in half square metres, Area(Box) = hi - lo.  The
\* cell c is the square between x = c and x = c + 1.
\* ------------------------------------------------------------------------
MaxRows == 3

Seg(x1, y1, x2, y2) == <<(<<x1, y1>>), (<<x2, y2>>)>>

\* the ring of the rectangle [lo, hi] x [0, 1] as four segments
RingSegs(lo, hi) ==
    <<Seg(lo, 0, hi, 0), Seg(hi, 0, hi, 1), Seg(hi, 1, lo, 1), Seg(lo, 1, lo, 0)>>

\* Python's order on coordinate tuples
PointLess(p, q) == p[1] < q[1] \/ (p[1] = q[1] /\ p[2] < q[2])

\* variant: the segment is kept in the direction it was written
SortedLine_AsWritten(line) == line

\* tuple(sorted(line))
SortedLine(line) ==
    IF PointLess(line[2], line[1]) THEN <<line[2], line[1]>> ELSE line

\* lines 46-68 of LTD_floor4.py (10-32 of LTD_foundation2.py): the segments
\* of a cell, those with two equal end points left out, each with its end
\* points sorted, as a set.  cell is the sequence of the pieces between
\* the separators, each the sequence of coordinate pairs the pattern finds
\* in it; a piece is a segment when it holds 2 pairs (line 57).
parse_boundary_string(cell) ==
    {SortedLine(cell[k]) :
        k \in {j \in 1..Len(cell) : Len(cell[j]) = 2 /\ cell[j][1] # cell[j][2]}}

Box(lo, hi, nodes) == [kind |-> "Polygon", lo |-> lo, hi |-> hi, y |-> 0, nodes |-> nodes]

LineStr(lo, hi, y) == [kind |-> "LineString", lo |-> lo, hi |-> hi, y |-> y, nodes |-> {}]

Trapezoid(lo, hi) == [kind |-> "Trapezoid", lo |-> lo, hi |-> hi, y |-> 0, nodes |-> {}]

\* p.area, in half square metres
Area(g) == IF g.kind = "Polygon" THEN g.hi - g.lo ELSE 0

\* the cells under (y = 1) or over (y = 0) the segments along one line
CellsOn(lines, y) ==
    UNION {(s[1][1])..(s[2][1] - 1) :
              s \in {t \in lines : t[1][2] = y /\ t[2][2] = y}}

\* the x of the segments straight across
Uprights(lines) == {s[1][1] : s \in {t \in lines : t[1][1] = t[2][1]}}

\* the x of the end points of the segments along the two lines
Nodes(lines) ==
    {p[1] : p \in UNION {{s[1], s[2]} : s \in {t \in lines : t[1][2] = t[2][2]}}}

\* polygonize(unary_union(MultiLineString(lines))): the faces closed by the
\* noded segments, one between each two neighbouring uprights joined along
\* both lines; segments that close nothing are left out
polygonize(lines) ==
    LET ups   == Uprights(lines)
        both  == CellsOn(lines, 0) \cap CellsOn(lines, 1)
        nodes == Nodes(lines)
        face(lo, hi) ==
            /\ lo < hi
            /\ \A v \in ups : ~(lo < v /\ v < hi)
            /\ (lo..(hi - 1)) \subseteq both
    IN  {Box(f[1], f[2], {x \in nodes : f[1] < x /\ x < f[2]}) :
            f \in {g \in ups \X ups : face(g[1], g[2])}}

SetMin(S) == CHOOSE x \in S : \A y \in S : x <= y

SetMax(S) == CHOOSE x \in S : \A y \in S : y <= x

\* convex_hull of the end points of the segments: a LineString when they
\* lie on one line, the rectangle when both lines carry the same extent
convex_hull(lines) ==
    LET pts == UNION {{s[1], s[2]} : s \in lines}
        xs(y) == {p[1] : p \in {q \in pts : q[2] = y}}
        allx == {p[1] : p \in pts}
    IN  IF xs(0) = {} THEN LineStr(SetMin(allx), SetMax(allx), 1)
        ELSE IF xs(1) = {} THEN LineStr(SetMin(allx), SetMax(allx), 0)
        ELSE IF SetMin(xs(0)) = SetMin(xs(1)) /\ SetMax(xs(0)) = SetMax(xs(1))
                  /\ SetMin(allx) < SetMax(allx)
             THEN Box(SetMin(allx), SetMax(allx), {})
        ELSE Trapezoid(SetMin(allx), SetMax(allx))

\* variant: the hull is taken whenever nothing closes
RowPolygons_AlwaysHull(lines) ==
    IF polygonize(lines) # {} THEN polygonize(lines) ELSE {convex_hull(lines)}

\* lines 85-94 of LTD_floor4.py: the polygons of one row, or the hull of
\* its end points when nothing closes and the row has 3 points or more
\* (two per segment)
RowPolygons(lines) ==
    IF polygonize(lines) # {} THEN polygonize(lines)
    ELSE IF 2 * Cardinality(lines) >= 3 THEN {convex_hull(lines)}
    ELSE {}

\* the cells of the polygons among the geometries
CellsOf(geoms) ==
    UNION {(g.lo)..(g.hi - 1) : g \in {h \in geoms : h.kind = "Polygon"}}

\* the largest runs of cells: <<first cell, cell after the last>>
Runs(cells) ==
    {r \in cells \X {c + 1 : c \in cells} :
        /\ r[1] < r[2]
        /\ r[1] - 1 \notin cells
        /\ r[2] \notin cells
        /\ \A c \in (r[1])..(r[2] - 1) : c \in cells}

\* variant: the merged area loses the last cell of every part
Parts_Eroded(geoms) ==
    {Box(r[1], r[2] - 1, {}) : r \in {q \in Runs(CellsOf(geoms)) : q[1] < q[2] - 1}}

\* the polygons of unary_union(geoms): polygons that overlap or share an
\* edge are merged, so each part is a largest run of covered cells; the
\* union keeps the vertices of its inputs on the long edges
Parts(geoms) ==
    LET ends == UNION {{g.lo, g.hi} \cup g.nodes : g \in {h \in geoms : h.kind = "Polygon"}}
    IN  {Box(r[1], r[2], {x \in ends : r[1] < x /\ x < r[2]}) : r \in Runs(CellsOf(geoms))}

\* the LineStrings of unary_union(geoms): those not lying in a polygon
LooseLines(geoms) ==
    {g \in geoms : g.kind = "LineString"
                     /\ \E c \in (g.lo)..(g.hi - 1) : c \notin CellsOf(geoms)}

\* lines 100-107: merged_polys.  A union that is one Polygon is taken as it
\* is; one that is a single LineString is neither a Polygon nor has geoms;
\* any other union gives all its parts, polygons and lines alike
merged_polys(geoms) ==
    IF Parts(geoms) = {} /\ Cardinality(LooseLines(geoms)) <= 1 THEN {}
    ELSE Parts(geoms) \cup LooseLines(geoms)

\* variant: the first part from the left is taken
MainPolys_Leftmost(geoms) ==
    {p \in merged_polys(geoms) : \A q \in merged_polys(geoms) : p.lo <= q.lo}

\* line 111: what max(merged_polys, key=area) can return
MainPolys(geoms) ==
    {p \in merged_polys(geoms) : \A q \in merged_polys(geoms) : Area(q) <= Area(p)}

\* the characters of level names, in the order of their codes
Alnum == <<"0", "1", "2", "3", "4", "5", "6", "7", "8", "9", "A", "B", "F", "L", "R">>

IsAlnum(c) == c \in Range(Alnum)

\* str.strip()
RECURSIVE Strip(_)
Strip(s) ==
    IF s = <<>> THEN s
    ELSE IF Head(s) = " " THEN Strip(Tail(s))
    ELSE IF s[Len(s)] = " " THEN Strip(SubSeq(s, 1, Len(s) - 1))
    ELSE s

\* lines 35-39 of LTD_floor4.py: the first one or two letters or digits of
\* the stripped name, else the first two characters of the name
extract_level_prefix(level_name) ==
    LET t == Strip(level_name)
    IN  IF t # <<>> /\ IsAlnum(t[1])
        THEN (IF Len(t) >= 2 /\ IsAlnum(t[2]) THEN SubSeq(t, 1, 2) ELSE SubSeq(t, 1, 1))
        ELSE SubSeq(level_name, 1, Min2(2, Len(level_name)))

\* the order of str: by the code of the first character that differs
Code(c) == IF IsAlnum(c) THEN CHOOSE i \in 1..Len(Alnum) : Alnum[i] = c ELSE 0

RECURSIVE StrLess(_, _)
StrLess(a, b) ==
    IF b = <<>> THEN FALSE
    ELSE IF a = <<>> THEN TRUE
    ELSE IF Head(a) # Head(b) THEN Code(Head(a)) < Code(Head(b))
    ELSE StrLess(Tail(a), Tail(b))

\* df.groupby("LevelGroup"): the group keys in sorted order
RECURSIVE SortedKeys(_)
SortedKeys(S) ==
    IF S = {} THEN <<>>
    ELSE LET m == CHOOSE x \in S : \A y \in S \ {x} : StrLess(x, y)
         IN  <<m>> \o SortedKeys(S \ {m})

Groups == SortedKeys({extract_level_prefix(df[k].Level) : k \in 1..Len(df)})

\* the rows of a group, in the order of the file
RowsOfGroup(g) ==
    SelectSeq([k \in 1..Len(df) |-> k],
              LAMBDA k : extract_level_prefix(df[k].Level) = g)

Row(level, cell) == [Level |-> level, cell |-> cell]

\* the rows of the floor file.  On one level: rings of 10, 3 and 1 m2 side
\* by side, and two rows of two segments on one line each.  On the other:
\* a ring left open; a cell with no proper segment; a cell with one segment
\* written twice; a ring written with a
\* repeated and a point-like segment and pieces of 1 and 3 coordinate
\* pairs; two rings with a common edge
FloorRows ==
    {Row(<<"0", "0", "A">>, RingSegs(8, 28)),
     Row(<<"0", "0", "A">>, RingSegs(0, 6)),
     Row(<<"0", "0", "A">>, RingSegs(6, 8)),
     Row(<<"0", "0", "A">>, <<Seg(0, 0, 2, 0), Seg(2, 0, 6, 0)>>),
     Row(<<"0", "0", "A">>, <<Seg(30, 1, 32, 1), Seg(32, 1, 36, 1)>>),
     Row(<<" ", "0", "1">>, SubSeq(RingSegs(0, 6), 1, 3)),
     Row(<<" ", "0", "1">>, <<Seg(1, 0, 1, 0)>>),
     Row(<<" ", "0", "1">>, <<Seg(2, 0, 4, 0), Seg(4, 0, 2, 0)>>),
     Row(<<" ", "0", "1">>, RingSegs(8, 28) \o <<Seg(28, 0, 8, 0), Seg(8, 1, 8, 1)>>
                                \o <<(<<(<<8, 0>>)>>), (<<(<<8, 0>>), (<<28, 0>>), (<<28, 1>>)>>)>>),
     Row(<<" ", "0", "1">>, RingSegs(30, 34) \o RingSegs(34, 40))}

\* the hull of every cell drawn is a rectangle or a line of the strip
OnStrip(cell) ==
    LET lines == parse_boundary_string(cell)
    IN  lines # {} => convex_hull(lines).kind # "Trapezoid"

InitB ==
    /\ \E n \in 0..MaxRows : df \in [1..n -> {r \in FloorRows : OnStrip(r.cell)}]
    /\ gpc = "row"
    /\ gi = 1
    /\ ri = 1
    /\ all_polygons = {}
    /\ merged_floor_data = <<>>
    /\ filled = <<>>
    /\ centroid_data = <<>>
    /\ fed = <<>>
    /\ SumIdle
    /\ VorIdle
    /\ CsvIdle

\* lines 80-96: the next row of the current group
OutlineRow ==
    /\ gpc = "row"
    /\ gi <= Len(Groups)
    /\ ri <= Len(RowsOfGroup(Groups[gi]))
    /\ LET boundary_lines == parse_boundary_string(df[RowsOfGroup(Groups[gi])[ri]].cell)
       IN  all_polygons' = IF boundary_lines = {} THEN all_polygons
                           ELSE all_polygons \cup RowPolygons(boundary_lines)
    /\ ri' = ri + 1
    /\ UNCHANGED <<df, gpc, gi, merged_floor_data, filled, centroid_data, fed,
                   sumvars, vorvars, csvvars>>

\* lines 98-116: the rows of the group are through; the largest part of
\* the union is stored as the group's outline.  main_poly.exterior raises
\* AttributeError when the part taken is a LineString
OutlineGroup ==
    /\ gpc = "row"
    /\ gi <= Len(Groups)
    /\ ri > Len(RowsOfGroup(Groups[gi]))
    /\ IF all_polygons # {} /\ merged_polys(all_polygons) # {}
       THEN \E main_poly \in MainPolys(all_polygons) :
               IF main_poly.kind = "Polygon"
               THEN /\ merged_floor_data' = Append(merged_floor_data,
                                               [group |-> Groups[gi], coords |-> main_poly])
                    /\ gi' = gi + 1 /\ ri' = 1 /\ all_polygons' = {}
                    /\ gpc' = gpc
               ELSE /\ gpc' = "error"
                    /\ UNCHANGED <<gi, ri, all_polygons, merged_floor_data>>
       ELSE /\ gi' = gi + 1 /\ ri' = 1 /\ all_polygons' = {}
            /\ UNCHANGED <<gpc, merged_floor_data>>
    /\ UNCHANGED <<df, filled, centroid_data, fed, sumvars, vorvars, csvvars>>

\* lines 133-138: every group is through, the outlines are saved
OutlineSave ==
    /\ gpc = "row"
    /\ gi > Len(Groups)
    /\ gpc' = "done"
    /\ UNCHANGED <<df, gi, ri, all_polygons, merged_floor_data, filled, centroid_data,
                   fed, sumvars, vorvars, csvvars>>

\* the x of the vertices of a stored outline, in rising order
RECURSIVE SortedXs(_)
SortedXs(S) ==
    IF S = {} THEN <<>> ELSE <<SetMin(S)>> \o SortedXs(S \ {SetMin(S)})

\* lines 112-113: the edge segments of main_poly.exterior, vertex to
\* vertex: along the bottom line, up, back along the top line, down
ExteriorEdges(poly) ==
    LET xs == SortedXs({poly.lo, poly.hi} \cup poly.nodes)
        n  == Len(xs)
    IN  [k \in 1..(n - 1) |-> Seg(xs[k], 0, xs[k + 1], 0)]
        \o <<Seg(poly.hi, 0, poly.hi, 1)>>
        \o [k \in 1..(n - 1) |-> Seg(xs[n + 1 - k], 1, xs[n - k], 1)]
        \o <<Seg(poly.lo, 1, poly.lo, 0)>>

\* a second run of generate_merged_floor_json, on a file that holds for
\* every group of the first run one row with the edge segments of its
\* stored outline
OutlineFeedBack ==
    /\ gpc = "done"
    /\ fed = <<>>
    /\ merged_floor_data # <<>>
    /\ fed' = merged_floor_data
    /\ df' = [k \in 1..Len(merged_floor_data) |->
                 Row(merged_floor_data[k].group, ExteriorEdges(merged_floor_data[k].coords))]
    /\ gpc' = "row"
    /\ gi' = 1
    /\ ri' = 1
    /\ all_polygons' = {}
    /\ merged_floor_data' = <<>>
    /\ UNCHANGED <<filled, centroid_data, sumvars, vorvars, csvvars>>

NextB == OutlineRow \/ OutlineGroup \/ OutlineSave \/ OutlineFeedBack

SpecB == InitB /\ [][NextB]_vars

\* ------------------------------------------------------------------------
\* Properties of the outline pipelines
\* ------------------------------------------------------------------------
\* the group Groups[g] is through
GroupDone(g) == gi > g

\* the polygons the rows of a group give
GroupPolygons(g) ==
    {p \in UNION {RowPolygons(parse_boundary_string(df[k].cell)) :
                     k \in {j \in Range(RowsOfGroup(g)) :
                              parse_boundary_string(df[j].cell) # {}}} :
        p.kind = "Polygon"}

\* the outlines stored under a group name
OutlinesOf(g) ==
    SelectSeq(merged_floor_data, LAMBDA e : e.group = g)

\* the cells lo .. hi - 1 are all covered by the polygons polys
CoveredRun(polys, lo, hi) ==
    \A c \in lo..(hi - 1) : \E p \in polys : p.lo <= c /\ c < p.hi

\* C18: a level group with at least one polygon gets exactly one outline, a
\* part of the union of its polygons (covered throughout, not covered just
\* beyond either end) that no other covered stretch exceeds in area, so the
\* smaller parts are dropped; a group with no polygon gets no outline.
C18_LargestPartIsTheOutline ==
    LET names == Groups
    IN  \A g \in 1..Len(names) :
            LET polys == GroupPolygons(names[g])
                out   == OutlinesOf(names[g])
            IN  /\ (GroupDone(g) /\ polys # {}) =>
                      /\ Len(out) = 1
                      /\ out[1].coords.kind = "Polygon"
                      /\ out[1].coords.lo < out[1].coords.hi
                      /\ CoveredRun(polys, out[1].coords.lo, out[1].coords.hi)
                      /\ ~CoveredRun(polys, out[1].coords.lo - 1, out[1].coords.lo)
                      /\ ~CoveredRun(polys, out[1].coords.hi, out[1].coords.hi + 1)
                      /\ \A p, q \in polys :
                            CoveredRun(polys, p.lo, q.hi) =>
                                q.hi - p.lo <= Area(out[1].coords)
                /\ polys = {} => out = <<>>
                /\ ~GroupDone(g) => out = <<>>

\* a group of two rows, rings of 10 m2 and 3 m2 apart from each other, got
\* the 10 m2 ring as its outline
C18_Witness ==
    \E g \in 1..Len(Groups) :
        /\ GroupDone(g)
        /\ {Area(p) : p \in GroupPolygons(Groups[g])} = {20, 6}
        /\ Cardinality(Parts(GroupPolygons(Groups[g]))) = 2
        /\ Len(OutlinesOf(Groups[g])) = 1
        /\ OutlinesOf(Groups[g])[1].coords.lo = 8
        /\ OutlinesOf(Groups[g])[1].coords.hi = 28

\* C19: boundary reconstruction is idempotent: a second run on the edge
\* segments of the outlines the first run stored ends without error and
\* stores, for every group, the same polygon with the same vertices.
C19_ReconstructionIdempotent ==
    /\ (fed # <<>> /\ gpc = "done") => merged_floor_data = fed
    /\ fed # <<>> => gpc # "error"

\* the second run is through, on an outline merged from several rows (it
\* has a vertex on a long edge) and an outline that came from a hull
C19_Witness ==
    /\ fed # <<>> /\ gpc = "done"
    /\ \E k \in 1..Len(fed) : fed[k].coords.nodes # {}
    /\ \E k \in 1..Len(fed) : fed[k].coords.lo = 0 /\ fed[k].coords.hi = 6


\* ------------------------------------------------------------------------
\* The foundation pipeline (LTD_foundation2.py), on the same strip world.
\* Centroids are kept in millimetres.
\* ------------------------------------------------------------------------
\* the rows of the foundation file: on one level pads of 0.5 and 5.5 m2, a
\* row with two pads of 1 and 1.5 m2 apart from each other and a ring left
\* open; on the other pads of 20 and 20.5 m2, a row with two pads of 2 and
\* 4 m2 that share an edge, and the row with the two small pads again
PadRows ==
    {Row(<<"0", "0", "A">>, RingSegs(0, 1)),
     Row(<<"0", "0", "A">>, RingSegs(0, 11)),
     Row(<<"0", "0", "A">>, RingSegs(0, 2) \o RingSegs(4, 7)),
     Row(<<"0", "0", "A">>, SubSeq(RingSegs(2, 4), 1, 3)),
     Row(<<" ", "0", "1">>, RingSegs(0, 40)),
     Row(<<" ", "0", "1">>, RingSegs(0, 41)),
     Row(<<" ", "0", "1">>, RingSegs(10, 14) \o RingSegs(14, 22)),
     Row(<<" ", "0", "1">>, RingSegs(0, 2) \o RingSegs(4, 7))}

InitF ==
    /\ \E n \in 0..MaxRows : df \in [1..n -> PadRows]
    /\ gpc = "row"
    /\ gi = 1
    /\ ri = 1
    /\ all_polygons = {}
    /\ merged_floor_data = <<>>
    /\ filled = <<>>
    /\ centroid_data = <<>>
    /\ fed = <<>>
    /\ SumIdle
    /\ VorIdle
    /\ CsvIdle

\* lines 76-85: the polygons of a row, merged: the parts of their union
PadPolys(lines) == Parts(polygonize(lines))

\* the orders in which the parts of a MultiPolygon can come
OrdersOf(S) ==
    {s \in [1..Cardinality(S) -> S] : \A i, j \in 1..Cardinality(S) : s[i] = s[j] => i = j}

\* line 89: area > 20.0, in half square metres
TooLarge(area) == area > 40

\* variant: the two limits count as footings
IsFooting_Closed(area) == 1 <= area /\ area <= 11

\* line 97: 0.5 < area < 5.5, in half square metres
IsFooting(area) == 1 < area /\ area < 11

\* round(v, 3) of a length given in micrometres, in millimetres
round3(v) == (v + 500) \div 1000

\* line 96: p.centroid, in micrometres
centroid(p) == [x |-> (p.lo + p.hi) * 250000, y |-> 500000]

\* lines 98-102: the entry of a footing
CentroidEntry(group_name, p) ==
    [Level |-> group_name, X |-> round3(centroid(p).x), Y |-> round3(centroid(p).y)]

\* lines 87-103 for the polygons polys in their order: the ones filled
RECURSIVE FilledOf(_, _)
FilledOf(group_name, polys) ==
    IF polys = <<>> THEN <<>>
    ELSE (IF TooLarge(Area(Head(polys))) THEN <<>>
          ELSE <<[group |-> group_name, poly |-> Head(polys)]>>)
         \o FilledOf(group_name, Tail(polys))

\* lines 87-103 for the polygons polys in their order: the entries added
RECURSIVE CentroidsOf(_, _)
CentroidsOf(group_name, polys) ==
    IF polys = <<>> THEN <<>>
    ELSE (IF ~TooLarge(Area(Head(polys))) /\ IsFooting(Area(Head(polys)))
          THEN <<CentroidEntry(group_name, Head(polys))>>
          ELSE <<>>)
         \o CentroidsOf(group_name, Tail(polys))

\* lines 70-103: the next row of the current group
FoundationRow ==
    /\ gpc = "row"
    /\ gi <= Len(Groups)
    /\ ri <= Len(RowsOfGroup(Groups[gi]))
    /\ LET boundary_lines == parse_boundary_string(df[RowsOfGroup(Groups[gi])[ri]].cell)
       IN  IF boundary_lines = {}
           THEN UNCHANGED <<filled, centroid_data>>
           ELSE \E polys \in OrdersOf(PadPolys(boundary_lines)) :
                   /\ filled' = filled \o FilledOf(Groups[gi], polys)
                   /\ centroid_data' = centroid_data \o CentroidsOf(Groups[gi], polys)
    /\ ri' = ri + 1
    /\ UNCHANGED <<df, gpc, gi, all_polygons, merged_floor_data, fed, sumvars, vorvars, csvvars>>

\* lines 105-119: the rows of the group are through
FoundationGroup ==
    /\ gpc = "row"
    /\ gi <= Len(Groups)
    /\ ri > Len(RowsOfGroup(Groups[gi]))
    /\ gi' = gi + 1
    /\ ri' = 1
    /\ UNCHANGED <<df, gpc, all_polygons, merged_floor_data, filled, centroid_data, fed,
                   sumvars, vorvars, csvvars>>

\* lines 121-129: every group is through, the centroids are saved
FoundationSave ==
    /\ gpc = "row"
    /\ gi > Len(Groups)
    /\ gpc' = "done"
    /\ UNCHANGED <<df, gi, ri, all_polygons, merged_floor_data, filled, centroid_data,
                   fed, sumvars, vorvars, csvvars>>

NextF == FoundationRow \/ FoundationGroup \/ FoundationSave

SpecF == InitF /\ [][NextF]_vars


\* ------------------------------------------------------------------------
\* Properties of the foundation pipeline
\* ------------------------------------------------------------------------
\* the rows of df the pipeline is through with
RowsThrough ==
    LET names == Groups
        rows(g) == RowsOfGroup(names[g])
        upto(g) == IF g < gi THEN Len(rows(g))
                   ELSE IF g = gi THEN Min2(ri - 1, Len(rows(g)))
                   ELSE 0
    IN  UNION {{rows(g)[i] : i \in 1..upto(g)} : g \in 1..Len(names)}

\* the polygons of row k: <<lo, hi>> covered throughout by closed rings of
\* the row and not covered just beyond either end
PadsOfRow(k) ==
    LET lines  == parse_boundary_string(df[k].cell)
        closed == CellsOf(polygonize(lines))
        xs     == {p[1] : p \in UNION {{s[1], s[2]} : s \in lines}}
    IN  {r \in xs \X xs :
            /\ r[1] < r[2]
            /\ ((r[1])..(r[2] - 1)) \subseteq closed
            /\ (r[1] - 1) \notin closed
            /\ r[2] \notin closed}

\* the polygons of the rows of a group that are through, each with its row
PadsOfGroup(g) ==
    UNION {{<<k, r>> : r \in PadsOfRow(k)} :
              k \in {j \in RowsThrough : extract_level_prefix(df[j].Level) = g}}

\* C20: of the polygons of the foundation rows, one with an area above
\* 20 m2 is neither filled nor given a centroid; every other one is filled,
\* each on its own, and has a centroid recorded, at its centre, exactly
\* when its area lies strictly between 0.5 and 5.5 m2.
C20_FoundationFilters ==
    LET names == Range(Groups)
    IN  /\ \A g \in names :
           LET pads     == PadsOfGroup(g)
               kept     == {e \in pads : ~(e[2][2] - e[2][1] > 40)}
               footings == {e \in kept : 1 < e[2][2] - e[2][1] /\ e[2][2] - e[2][1] < 11}
               drawn    == {<<filled[i].poly.lo, filled[i].poly.hi>> :
                               i \in {j \in 1..Len(filled) : filled[j].group = g}}
               marked   == {centroid_data[i].X :
                               i \in {j \in 1..Len(centroid_data) : centroid_data[j].Level = g}}
           IN  /\ \A r \in drawn \cup {e[2] : e \in pads} :
                     Cardinality({i \in 1..Len(filled) :
                                     /\ filled[i].group = g
                                     /\ filled[i].poly.lo = r[1]
                                     /\ filled[i].poly.hi = r[2]})
                       = Cardinality({e \in kept : e[2] = r})
               /\ \A x \in marked \cup {250 * (e[2][1] + e[2][2]) : e \in pads} :
                     Cardinality({i \in 1..Len(centroid_data) :
                                     centroid_data[i].Level = g /\ centroid_data[i].X = x})
                       = Cardinality({e \in footings : 250 * (e[2][1] + e[2][2]) = x})
        /\ \A i \in 1..Len(centroid_data) :
              centroid_data[i].Y = 500 /\ centroid_data[i].Level \in names
        /\ \A i \in 1..Len(filled) : filled[i].group \in names

\* the run is through on rows that hold a pad of 0.5 m2, one of 5.5 m2 and
\* two pads of 1 and 1.5 m2 in one row: the two limits gave no centroid,
\* the two small pads gave one each
C20_Witness ==
    /\ gpc = "done"
    /\ Len(df) = 3
    /\ {df[k].cell : k \in 1..3} = {RingSegs(0, 1), RingSegs(0, 11), RingSegs(0, 2) \o RingSegs(4, 7)}
    /\ Len(filled) = 4
    /\ {centroid_data[i].X : i \in 1..Len(centroid_data)} = {500, 2750}
    /\ Len(centroid_data) = 2

\* ------------------------------------------------------------------------
\* Degenerate rows in the floor outline pipeline
\* ------------------------------------------------------------------------
\* C21: rows with no closed ring never abort the run of the floor outline
\* pipeline: the run does not end in an error, and once it is through every
\* group whose rows give a polygon has its outline in the output.
C21_DegenerateNeverAborts ==
    /\ gpc # "error"
    /\ gpc = "done" =>
          LET names == Groups
          IN  \A g \in 1..Len(names) :
                 GroupPolygons(names[g]) # {} => Len(OutlinesOf(names[g])) = 1

\* ------------------------------------------------------------------------
\* The CSV converters: generate_columns_json (columns_json2.py) and
\* generate_wall_json (wall2.py).  A cell of a row is a sequence of
\* one-character strings, or NoCell where the row is too short for the
\* column (csv.DictReader gives None).  Parsed numbers are integers in
\* ten-thousandths; rounded coordinates are in thousandths, rounded heights
\* in tenths.
\* ------------------------------------------------------------------------
NoCell == <<"None">>

\* the digits of s, s holding digits only, as a number scaled to width places
FracValue(s, width) ==
    LET t == SubSeq(s, 1, Min2(Len(s), width))
    IN  DigitsValue(t \o [k \in 1..(width - Len(t)) |-> "0"], 0)

\* float(cell): surrounding blanks are dropped; an optional sign, then
\* decimal digits with at most one point and at least one digit; a missing
\* cell raises TypeError, any other text ValueError (ok = FALSE)
ParseFloat(cell) ==
    LET t    == IF cell = NoCell THEN <<>> ELSE Strip(cell)
        neg  == t # <<>> /\ Head(t) = "-"
        body == IF t # <<>> /\ Head(t) \in {"-", "+"} THEN Tail(t) ELSE t
        dots == {i \in 1..Len(body) : body[i] = "."}
        d    == IF dots = {} THEN Len(body) + 1 ELSE CHOOSE i \in dots : TRUE
        int  == SubSeq(body, 1, d - 1)
        frac == SubSeq(body, d + 1, Len(body))
        mag  == DigitsValue(int, 0) * 10000 + FracValue(frac, 4)
    IN  IF /\ cell # NoCell
           /\ Cardinality(dots) <= 1
           /\ \A i \in 1..Len(body) : i \in dots \/ IsDigit(body[i])
           /\ Len(int) + Len(frac) >= 1
        THEN [ok |-> TRUE, val |-> IF neg THEN 0 - mag ELSE mag]
        ELSE [ok |-> FALSE, val |-> 0]

\* int(cell): surrounding blanks are dropped; an optional sign and decimal
\* digits; a missing cell raises TypeError
ParseIntCell(cell) ==
    IF cell = NoCell THEN [ok |-> FALSE, val |-> 0] ELSE ParseInt(Strip(cell))

\* round(v, places): v in ten-thousandths, the result in units of `unit`
\* ten-thousandths, halves to the even neighbour
RoundTo(v, unit) ==
    LET a == IF v < 0 THEN 0 - v ELSE v
        q == a \div unit
        r == a % unit
        m == IF 2 * r > unit \/ (2 * r = unit /\ q % 2 = 1) THEN q + 1 ELSE q
    IN  IF v < 0 THEN 0 - m ELSE m

\* cell.strip(); a missing cell raises AttributeError
StripCell(cell) ==
    IF cell = NoCell THEN [ok |-> FALSE, val |-> <<>>]
    ELSE [ok |-> TRUE, val |-> Strip(cell)]

ColumnRow(id, x, y, base, top) ==
    [id |-> id, x |-> x, y |-> y, base |-> base, top |-> top]

\* rows of column_data.csv: two good rows; an ID that is no integer; an X
\* that is no number; a row too short for Top Y and the levels; an empty Y
ColumnRows ==
    {ColumnRow(<<"7">>, <<"1", ".", "5">>, <<" ", "2">>, <<"L", "1">>, <<" ", "0", "2", " ">>),
     ColumnRow(<<"8">>, <<"-", "0", ".", "2", "5", "0", "4">>, <<"3", ".">>, <<"L", "1">>, <<"r", "f">>),
     ColumnRow(<<"1", ".", "0">>, <<"1">>, <<"1">>, <<"L", "1">>, <<"0", "2">>),
     ColumnRow(<<"9">>, <<"x", "1">>, <<"1">>, <<"L", "1">>, <<"0", "2">>),
     ColumnRow(<<"9">>, <<"1">>, NoCell, NoCell, NoCell),
     ColumnRow(<<"9">>, <<"1">>, <<>>, <<"L", "1">>, <<"0", "2">>)}

\* the 13 characters a top level name of wall_data.csv starts with
LevelPrefix == <<"U", "p", " ", "t", "o", " ", "l", "e", "v", "e", "l", ":", " ">>

WallRow(height, id, sx, sy, ex, ey, base, top) ==
    [height |-> height, id |-> id, sx |-> sx, sy |-> sy, ex |-> ex, ey |-> ey,
     base |-> base, top |-> top]

\* rows of wall_data.csv: a tall wall; a wall of exactly the least height;
\* a wall just below it; a tall wall with an ID that is no integer; a
\* height that is no number; a row too short for End Y and the levels
WallRows ==
    {WallRow(<<"2", "4", "0", "0">>, <<"1">>, <<"0">>, <<"0">>, <<"4", ".", "5">>, <<"0">>,
             <<"L", "1">>, LevelPrefix \o <<"r", "f">>),
     WallRow(<<"1", "8", "0", "0">>, <<"2">>, <<"0">>, <<"1">>, <<"4">>, <<"1">>,
             <<"L", "1">>, <<"0", "2">>),
     WallRow(<<"1", "7", "9", "9", ".", "9">>, <<"3">>, <<"0">>, <<"2">>, <<"4">>, <<"2">>,
             <<"L", "1">>, LevelPrefix \o <<"0", "2">>),
     WallRow(<<"2", "4", "0", "0">>, <<"w", "4">>, <<"0">>, <<"3">>, <<"4">>, <<"3">>,
             <<"L", "1">>, LevelPrefix \o <<"0", "2">>),
     WallRow(<<"t", "a", "l", "l">>, <<"5">>, <<"0">>, <<"4">>, <<"4">>, <<"4">>,
             <<"L", "1">>, LevelPrefix \o <<"0", "2">>),
     WallRow(<<"2", "4", "0", "0">>, <<"6">>, <<"0">>, <<"5">>, <<"4">>, NoCell,
             NoCell, NoCell)}

\* min_height_mm = 1800, in ten-thousandths of a millimetre
min_height_mm == 1800 * 10000

InitC ==
    /\ \E n \in 0..MaxRows :
          \/ reader \in [1..n -> ColumnRows] /\ cpc = "columns"
          \/ reader \in [1..n -> WallRows] /\ cpc = "walls"
    /\ rn = 1
    /\ columns_data = <<>>
    /\ walls_data = <<>>
    /\ returned = <<>>
    /\ SumIdle
    /\ VorIdle
    /\ GeoIdle

\* lines 24-32 of columns_json2.py: the try block raises
ColumnRaises(row) ==
    \/ ~ParseIntCell(row.id).ok
    \/ ~ParseFloat(row.x).ok
    \/ ~ParseFloat(row.y).ok
    \/ ~StripCell(row.base).ok
    \/ ~StripCell(row.top).ok

\* lines 34-39 of columns_json2.py
ColumnEntry(row) ==
    [ID        |-> ParseIntCell(row.id).val,
     Top       |-> [X |-> RoundTo(ParseFloat(row.x).val, 10),
                    Y |-> RoundTo(ParseFloat(row.y).val, 10)],
     BaseLevel |-> StripCell(row.base).val,
     TopLevel  |-> StripCell(row.top).val]

\* lines 23-39 of columns_json2.py: the next row of the file
ColumnsNextRow ==
    /\ cpc = "columns"
    /\ rn <= Len(reader)
    /\ columns_data' = IF ColumnRaises(reader[rn]) THEN columns_data
                       ELSE Append(columns_data, ColumnEntry(reader[rn]))
    /\ rn' = rn + 1
    /\ UNCHANGED <<reader, cpc, walls_data, returned, sumvars, vorvars, geovars>>

\* lines 41-48 of columns_json2.py: the file is written, its path returned
ColumnsSave ==
    /\ cpc = "columns"
    /\ rn > Len(reader)
    /\ returned' = <<[file |-> "columns_cleaned.json", numbers |-> <<>>]>>
    /\ cpc' = "done"
    /\ UNCHANGED <<reader, rn, columns_data, walls_data, sumvars, vorvars, geovars>>

\* line 25-27 of wall2.py: the height parses and is below the least height
WallTooShort(row) ==
    ParseFloat(row.height).ok /\ ParseFloat(row.height).val < min_height_mm

\* lines 24-38 of wall2.py: the try block raises
WallRaises(row) ==
    \/ ~ParseFloat(row.height).ok
    \/ /\ ~WallTooShort(row)
       /\ \/ ~ParseIntCell(row.id).ok
          \/ ~ParseFloat(row.sx).ok
          \/ ~ParseFloat(row.sy).ok
          \/ ~ParseFloat(row.ex).ok
          \/ ~ParseFloat(row.ey).ok
          \/ ~StripCell(row.base).ok
          \/ ~StripCell(row.top).ok

\* lines 40-47 of wall2.py
WallEntry(row) ==
    [ID        |-> ParseIntCell(row.id).val,
     StartTop  |-> [X |-> RoundTo(ParseFloat(row.sx).val, 10),
                    Y |-> RoundTo(ParseFloat(row.sy).val, 10)],
     EndTop    |-> [X |-> RoundTo(ParseFloat(row.ex).val, 10),
                    Y |-> RoundTo(ParseFloat(row.ey).val, 10)],
     BaseLevel |-> StripCell(row.base).val,
     TopLevel  |-> LET t == StripCell(row.top).val
                   IN  Upper(SubSeq(t, 14, Len(t))),
     Height_mm |-> RoundTo(ParseFloat(row.height).val, 1000)]

\* lines 23-47 of wall2.py: the next row of the file
WallsNextRow ==
    /\ cpc = "walls"
    /\ rn <= Len(reader)
    /\ walls_data' = IF WallRaises(reader[rn]) \/ WallTooShort(reader[rn]) THEN walls_data
                     ELSE Append(walls_data, WallEntry(reader[rn]))
    /\ rn' = rn + 1
    /\ UNCHANGED <<reader, cpc, columns_data, returned, sumvars, vorvars, geovars>>

\* lines 49-56 of wall2.py: the file is written; its path and the number of
\* walls exported are returned
WallsSave ==
    /\ cpc = "walls"
    /\ rn > Len(reader)
    /\ returned' = <<[file |-> "wall_cleaned.json", numbers |-> <<Len(walls_data)>>]>>
    /\ cpc' = "done"
    /\ UNCHANGED <<reader, rn, columns_data, walls_data, sumvars, vorvars, geovars>>

NextC == ColumnsNextRow \/ ColumnsSave \/ WallsNextRow \/ WallsSave

SpecC == InitC /\ [][NextC]_vars

\* ------------------------------------------------------------------------
\* Properties of the CSV converters
\* ------------------------------------------------------------------------
\* the row is a row of column_data.csv (it has the field x)
IsColumnRow(row) == "x" \in DOMAIN row

\* every numeric field of the row is there and parses
NumbersParse(row) ==
    IF IsColumnRow(row)
    THEN ParseIntCell(row.id).ok /\ ParseFloat(row.x).ok /\ ParseFloat(row.y).ok
    ELSE /\ ParseFloat(row.height).ok /\ ParseIntCell(row.id).ok
         /\ ParseFloat(row.sx).ok /\ ParseFloat(row.sy).ok
         /\ ParseFloat(row.ex).ok /\ ParseFloat(row.ey).ok

\* the rows of the file with a numeric field that is missing or does not parse
Malformed == {k \in 1..Len(reader) : ~NumbersParse(reader[k])}

\* the IDs of the entries written, in their order
EmittedIDs ==
    [k \in 1..Len(columns_data) |-> columns_data[k].ID]
        \o [k \in 1..Len(walls_data) |-> walls_data[k].ID]

\* the IDs of the rows of the file whose numeric fields parse (walls: of
\* those at or above the least height), in the order of the file
WellFormedIDs ==
    LET keep == SelectSeq([k \in 1..Len(reader) |-> k],
                          LAMBDA k : /\ NumbersParse(reader[k])
                                     /\ IsColumnRow(reader[k]) \/ ~WallTooShort(reader[k]))
    IN  [j \in 1..Len(keep) |-> ParseIntCell(reader[keep[j]].id).val]

\* C22: once a converter is through, the entries written are those of the
\* rows whose numeric fields parse, in the order of the file, and the number
\* of rows skipped as malformed is among the numbers returned to the caller.
C22_MalformedRowsSkippedAndCounted ==
    cpc = "done" =>
        /\ EmittedIDs = WellFormedIDs
        /\ \E i \in 1..Len(returned[1].numbers) :
              returned[1].numbers[i] = Cardinality(Malformed)

\* ------------------------------------------------------------------------
\* Order of the regions list
\* ------------------------------------------------------------------------

\* C24: on a floor whose pass builds regions, the regions list has one entry
\* per input site and entry i is the region of a site at the position of
\* site i (or an empty region), so that every record of the pass pairs the
\* coordinates of a site with the region that site generated.
C24_RegionOrderIsSiteOrder ==
    \A f \in 1..Len(floor_data) : \A li \in 1..2 :
        LET floor  == floor_data[f]
            points == all_points(floor)
        IN  (PassRuns(f, li) /\ PassTaken(f, li)
                /\ ~TooFewSites(points) /\ ~QhullError(points)) =>
                LET regions == voronoi_finite_polygons_2d(floor, points)
                IN  /\ Len(regions) = Len(points)
                    /\ \A i \in 1..Len(regions) :
                          regions[i] # 0 => points[regions[i]] = points[i]

\* ------------------------------------------------------------------------
\* The segments of a cell
\* ------------------------------------------------------------------------

\* the two end points of a segment, whatever its direction
Ends(line) == {line[1], line[2]}

\* the pieces of a cell that are segments with two different end points
ProperPieces(cell) ==
    {cell[j] : j \in {k \in 1..Len(cell) : Len(cell[k]) = 2 /\ cell[k][1] # cell[k][2]}}

\* C25: of every cell parsed, no two segments returned have the same two end
\* points, no segment returned has two equal end points, and the segments
\* returned are, up to direction, the pieces of the cell that are segments
\* with two different end points, each one once.
C25_SegmentsDistinctAndComplete ==
    \A k \in RowsThrough :
        LET lines == parse_boundary_string(df[k].cell)
            input == ProperPieces(df[k].cell)
        IN  /\ \A s, t \in lines : Ends(s) = Ends(t) => s = t
            /\ \A s \in lines : s[1] # s[2]
            /\ {Ends(s) : s \in lines} = {Ends(p) : p \in input}
            /\ Cardinality(lines) = Cardinality({Ends(p) : p \in input})

\* a parsed cell that holds one segment in both directions, a point-like
\* segment and a piece that is no segment
C25_Witness ==
    \E k \in RowsThrough :
        LET cell == df[k].cell
        IN  /\ \E i, j \in 1..Len(cell) :
                  /\ Len(cell[i]) = 2 /\ Len(cell[j]) = 2
                  /\ cell[i][1] # cell[i][2]
                  /\ cell[j] = <<cell[i][2], cell[i][1]>>
            /\ \E i \in 1..Len(cell) : Len(cell[i]) = 2 /\ cell[i][1] = cell[i][2]
            /\ \E i \in 1..Len(cell) : Len(cell[i]) # 2
            /\ Cardinality(parse_boundary_string(cell)) = 4

\* ------------------------------------------------------------------------
\* The hull of a row that closes no ring
\* ------------------------------------------------------------------------

\* the distinct end points of the segments of a row
EndPoints(lines) == UNION {Ends(s) : s \in lines}

\* the rows of the group in hand that are through
RowsOfGroupThrough ==
    IF gi <= Len(Groups)
    THEN {k \in RowsThrough : extract_level_prefix(df[k].Level) = Groups[gi]}
    ELSE {}

\* C26: for every row that is through and has segments, the row gives the
\* hull of its end points exactly when its segments close no ring and have
\* 3 distinct end points or more; a row that closes rings gives these
\* rings, and a row that closes none with fewer than 3 distinct end points
\* gives nothing.  What the rows of the group in hand give is in
\* all_polygons.
C26_HullExactlyWhenNoRingAndThreePoints ==
    /\ \A k \in RowsThrough :
          LET lines == parse_boundary_string(df[k].cell)
              rings == polygonize(lines)
              given == RowPolygons(lines)
          IN  lines # {} =>
                /\ (given = {convex_hull(lines)} /\ rings = {})
                      <=> (rings = {} /\ Cardinality(EndPoints(lines)) >= 3)
                /\ rings # {} => given = rings
                /\ (rings = {} /\ Cardinality(EndPoints(lines)) < 3) => given = {}
    /\ gpc = "row" =>
          \A k \in RowsOfGroupThrough :
              LET lines == parse_boundary_string(df[k].cell)
              IN  lines # {} => RowPolygons(lines) \subseteq all_polygons

\* a group in hand of which one row through closes no ring and gave its
\* hull, and another row through has a single segment and gave nothing
C26_Witness ==
    /\ gpc = "row"
    /\ \E k \in RowsOfGroupThrough :
          LET lines == parse_boundary_string(df[k].cell)
          IN  /\ polygonize(lines) = {}
              /\ Cardinality(EndPoints(lines)) >= 3
              /\ convex_hull(lines) \in all_polygons
    /\ \E k \in RowsOfGroupThrough :
          LET lines == parse_boundary_string(df[k].cell)
          IN  /\ Cardinality(lines) = 1
              /\ Cardinality(EndPoints(lines)) = 2
              /\ \A p \in all_polygons : p.kind # "LineString"

\* ------------------------------------------------------------------------
\* Order of the entries of a group
\* ------------------------------------------------------------------------

\* C27: at every point of the grouping and after it, along the entries of
\* every group the floor sort key never increases, and the entries of one
\* floor lie next to each other.
C27_EntriesInFloorOrder ==
    \A g \in 1..Len(column_groups) :
        LET points == column_groups[g].points
        IN  /\ \A k \in 1..(Len(points) - 1) :
                  floor_sort_key(points[k].floor) >= floor_sort_key(points[k + 1].floor)
            /\ \A i, j, k \in 1..Len(points) :
                  (i < j /\ j < k /\ points[i].floor = points[k].floor)
                      => points[j].floor = points[i].floor

\* a group with two entries of one floor and then one of a lower floor,
\* from a mapping that lists the lower floor first
C27_Witness ==
    /\ Grouped
    /\ \E g \in 1..Len(column_groups) :
          LET points == column_groups[g].points
          IN  /\ Len(points) = 3
              /\ points[1].floor = points[2].floor
              /\ floor_sort_key(points[2].floor) > floor_sort_key(points[3].floor)
              /\ data[1].floor = points[3].floor

\* ------------------------------------------------------------------------
\* Empty load fields
\* ------------------------------------------------------------------------

\* the field a row shows for position n of the weighted areas wa
FieldAt(wa, n) == IF n <= Len(wa) /\ wa[n] # 0 THEN Num(Round2(wa[n])) ELSE None

\* C28: in the i-th row of a group the permanent field is empty exactly
\* when the group has no weighted area at position 2i - 1 or that area is
\* 0, and the imposed field exactly when it has none at position 2i or that
\* area is 0; a field that is not empty shows the area rounded.  An area of
\* 0 keeps its position: it is an element of its pair and of the totals.
C28_FieldEmptyIffMissingOrZero ==
    pc = "done" =>
        \A g \in 1..Len(column_groups) :
            LET wa   == WeightedAreas(column_groups[g])
                rows == RowsOf(column_groups[g].id)
            IN  /\ \A i \in 1..Len(rows) :
                      /\ rows[i].Permanent = None
                            <=> (2 * i - 1 > Len(wa) \/ wa[2 * i - 1] = 0)
                      /\ rows[i].Imposed = None
                            <=> (2 * i > Len(wa) \/ wa[2 * i] = 0)
                      /\ rows[i].Permanent = FieldAt(wa, 2 * i - 1)
                      /\ rows[i].Imposed = FieldAt(wa, 2 * i)
                /\ Len(rows) >= 1 =>
                      /\ rows[1].TotalPermanent = Num(Round2(SumAt(wa, 1)))
                      /\ rows[1].TotalImposed = Num(Round2(SumAt(wa, 0)))

\* a report with a row whose permanent area is 0 and shown empty next to an
\* imposed area that is shown, and a row with no area at its positions
C28_Witness ==
    /\ pc = "done"
    /\ \E g \in 1..Len(column_groups) :
          LET wa   == WeightedAreas(column_groups[g])
              rows == RowsOf(column_groups[g].id)
          IN  /\ Len(wa) = 3 /\ Len(rows) = 2
              /\ wa[1] = 0 /\ wa[2] = 125 /\ wa[3] = 4
              /\ rows[1].Permanent = None
              /\ rows[1].Imposed = Num(12)
              /\ rows[1].TotalImposed = Num(12)
              /\ rows[2].Permanent = Num(0)
              /\ rows[2].Imposed = None

\* ------------------------------------------------------------------------
\* The three totals of a group
\* ------------------------------------------------------------------------

Abs(v) == IF v < 0 THEN 0 - v ELSE v

\* C29: on the first row of every group Total SLS differs from Total
\* Permanent plus Total Imposed by one hundredth at most; before rounding
\* the permanent and the imposed sums add up to the sum of all weighted
\* areas of the group, every area being an element of one of the two lists.
C29_TotalsAddUp ==
    pc = "done" =>
        \A g \in 1..Len(column_groups) :
            LET wa    == WeightedAreas(column_groups[g])
                pairs == weighted_pairs(wa)
                row   == FirstRow(column_groups[g].id)
            IN  /\ Abs(row.TotalSLS[2] - (row.TotalPermanent[2] + row.TotalImposed[2])) <= 1
                /\ SumSeq(perm_loads(pairs)) + SumSeq(imposed_loads(pairs)) = SumSeq(wa)
                /\ Len(perm_loads(pairs)) + Len(imposed_loads(pairs)) = Len(wa)

\* a group whose rounded totals differ by one hundredth: 0.125 and 0.125
\* give 0.12 and 0.12, their sum 0.25
C29_Witness ==
    /\ pc = "done"
    /\ \E g \in 1..Len(column_groups) :
          LET wa  == WeightedAreas(column_groups[g])
              row == FirstRow(column_groups[g].id)
          IN  /\ wa = <<125, 125>>
              /\ row.TotalPermanent = Num(12)
              /\ row.TotalImposed = Num(12)
              /\ row.TotalSLS = Num(25)

====
